---- MODULE Spec2Model ----
(***************************************************************************)
(* Model of the phone enrichment pipeline of gmaps-web-app.                *)
(*                                                                         *)
(* ProcessCSV (enhanced scraper) reads the places, runs                    *)
(* processPlacesWithPhones: one goroutine per place, gated by a buffered   *)
(* channel used as a counting semaphore, each goroutine calling            *)
(* ExtractPhoneFromGoogleMapsURL for an eligible place, writing the        *)
(* ScrapedPhone under a mutex, ticking the progress bar and signalling the *)
(* WaitGroup; then saves the CSV and prints the statistics.                *)
(***************************************************************************)
EXTENDS Integers, Sequences, FiniteSets, TLC

\* ------------------------------------------------------------ constants
\* const maxPhoneWorkers = 3
maxPhoneWorkers == 3

\* Largest batch (number of CSV data rows) enumerated for the worker pool,
\* where ExtractPhoneFromGoogleMapsURL is one call with its possible returns.
MaxPlaces == 4

\* Largest batch enumerated when the steps inside
\* ExtractPhoneFromGoogleMapsURL and findPhoneWithTimeout are followed one by one.
MaxJobPlaces == 2

\* Number of WebSocket connections opened on the web server.
MaxConns == 2

\* Number of ProgressMessages sent on the broadcast channel.
MaxEvents == 2

\* ------------------------------------------------------------ state
VARIABLES
    places,         \* the []PlaceWithPhone read by readCSV (input slice)
    updatedPlaces,  \* the copy processPlacesWithPhones works on and returns
    mainpc,         \* position of ProcessCSV / processPlacesWithPhones
    nextIdx,        \* loop variable i of "for i := range updatedPlaces" (1-based)
    wg,             \* sync.WaitGroup counter
    semaphore,      \* number of tokens in the buffered channel semaphore
    mu,             \* sync.Mutex: 0 when free, else the index of the holder
    bar,            \* progress bar count (bar.Add)
    pc,             \* position of each worker goroutine
    ctx,            \* per job: state of the context.WithTimeout deadline
    lookup,         \* per job: state of the goroutine of findPhoneWithTimeout
    result,         \* per job: the locals phone, err of the worker (line 340)
    panicking,      \* per job: the goroutine is unwinding a panic
    crashed,        \* the process was killed by an unrecovered panic
    ticks,          \* history: bar.Add calls made by each worker
    writes,         \* history: per record, the jobs that assigned its ScrapedPhone
    phonesFound,    \* ProcessCSV's statistic, -1 until computed
    req,            \* web server: the request handleExecutePipeline serves
    webpc,          \* web server: position of handleExecutePipeline / executePipeline
    cmd,            \* web server: the pipeline process started by cmd.Start()
    cmdCtx,         \* web server: the context.WithTimeout of executePipeline
    done,           \* web server: the channel "done" (buffer 1) of executePipeline
    response,       \* web server: the PipelineResponse executePipeline returns
    conns,          \* web server: state of each WebSocket connection
    clients,        \* web server: the map "clients"
    broadcast,      \* web server: messages sent on "broadcast", not yet received
    emitted,        \* history: every ProgressMessage sent on "broadcast"
    written,        \* web server: what handleExecutePipeline wrote to the HTTP client
    hmpc,           \* web server: position of handleMessages
    msg,            \* web server: the local msg of handleMessages
    toVisit,        \* web server: clients the running "range clients" has yet to produce
    atIntake,       \* history: the clients registered when msg was received
    attempted,      \* history: the clients WriteJSON(msg) was called on
    delivered,      \* history: per connection, the messages written to it
    webCrashed,     \* web server: the runtime ended the process (fatal error)
    text,           \* formatPhone: the string given to the first call
    formatted,      \* formatPhone: what formatPhone(text) returned
    reformatted,    \* formatPhone: what formatPhone(formatted) returned
    fmtpc,          \* formatPhone: which of the two calls has returned
    valid,          \* isPhoneNumber: what isPhoneNumber(text) returned
    enhanced,       \* TRUE: the enhanced scraper runs; FALSE: phone_scraper.go
    extracted,      \* extractPhoneFromText: what extractPhoneFromText(text) returned
    page,           \* findPhoneNumber: what each page.Elements query returns
    found,          \* findPhoneNumber: what findPhoneNumber(page) returned
    csvFile,        \* readCSV: the records of the CSV file, header first
    sh,             \* pipeline.sh: position, variables and exit status of the script
    dir,            \* pipeline.sh: the prospects_*.csv files of the working directory
    stages,         \* history: the stages pipeline.sh has run, with their outcome
    runs            \* web server: the executePipeline calls in progress at the same time

\* handleExecutePipeline and executePipeline; the clients and the relay of
\* handleMessages and handleWebSocket; all variables of web_server.go.
httpVars == <<req, webpc, cmd, cmdCtx, done, response, written>>
relayVars == <<conns, clients, broadcast, emitted, hmpc, msg, toVisit,
               atIntake, attempted, delivered>>
webVars == <<httpVars, relayVars, webCrashed>>

\* The argument and the results of formatPhone.
callVars == <<text, formatted, reformatted, fmtpc, valid, enhanced, extracted,
                page, found, csvFile, sh, dir, stages, runs>>

vars == <<places, updatedPlaces, mainpc, nextIdx, wg, semaphore, mu, bar, pc,
          ctx, lookup, result, panicking, crashed, ticks, writes,
          phonesFound, webVars, callVars>>

\* The variables of the enhanced scraper (ProcessCSV and its goroutines).
scraperVars == <<places, updatedPlaces, mainpc, nextIdx, wg, semaphore, mu,
                 bar, pc, ctx, lookup, result, panicking, crashed, ticks,
                 writes, phonesFound>>

\* What the main goroutine (ProcessCSV, the loop of processPlacesWithPhones)
\* owns, what the goroutines share, and what belongs to one job.
mainVars == <<places, mainpc, nextIdx, phonesFound>>
sharedVars == <<updatedPlaces, wg, semaphore, mu, bar, crashed, ticks, writes>>
jobVars == <<pc, ctx, lookup, result, panicking>>

\* ------------------------------------------------------------ records
\* A PlaceWithPhone as readCSV builds it.  Name stands for the columns the
\* pipeline only copies (Name, Address, Stars, Reviews, Hours, Website);
\* Phone and GoogleURL are the columns 4 and 7; ScrapedPhone is left at its
\* zero value "".
PlaceWithPhone(name, phone, url) ==
    [Name |-> name, Phone |-> phone, GoogleURL |-> url, ScrapedPhone |-> ""]

\* The Phone and GoogleURL columns of a row: a place with or without an
\* original phone, with or without a Google Maps URL.
InputPlaces == { <<"", "url">>, <<"tel", "url">>, <<"", "">> }

\* The slices readCSV can return for files of up to max data rows; the row
\* number serves as the name of the place.
BatchesUpTo(max) ==
    UNION { { [i \in 1..n |-> PlaceWithPhone(i, row[i][1], row[i][2])] :
                row \in [1..n -> InputPlaces] } : n \in 0..max }

\* The goroutines the model has room for: slot i is the goroutine the loop
\* starts for place i, and stays unspawned when the batch has fewer places.
Slots == 1..(IF MaxPlaces >= MaxJobPlaces THEN MaxPlaces ELSE MaxJobPlaces)

\* The WebSocket connections (one handleWebSocket call each).
Conns == 1..MaxConns

\* len(places), and the indexes of the places (1-based).
N == Len(places)
Jobs == 1..N

\* The phone the page of place i shows, as formatted by the locator.
PhoneOf(i) == "phone" \o ToString(i)

\* Mutant: the goroutine reads the loop variable instead of its argument,
\* which the loop has moved on to the last place.
PlaceIndex_LoopVariable(i) == N

\* The record "place := &updatedPlaces[index]" points to.
PlaceIndex(i) == i

\* Mutant: the test of the original phone is missing.
Eligible_AnyWithURL(i) == updatedPlaces[PlaceIndex(i)].GoogleURL # ""

\* "if place.Phone == "" && place.GoogleURL != """
Eligible(i) ==
    /\ updatedPlaces[PlaceIndex(i)].Phone = ""
    /\ updatedPlaces[PlaceIndex(i)].GoogleURL # ""

\* ------------------------------------------------------------ initial state
\* A PipelineRequest as handleExecutePipeline receives it: the HTTP method,
\* whether the body decodes and its parameters pass the validation, and
\* IncludePhone.
PipelineRequest(method, body, includePhone) ==
    [Method |-> method, Body |-> body, IncludePhone |-> includePhone]

\* The zero value of PipelineResponse.
NoResponse ==
    [Success |-> FALSE, Message |-> "", FileName |-> "",
     PlaceCount |-> 0, PhoneCount |-> 0]

\* The zero value of ProgressMessage.
NoMessage == [Type |-> "", Seq |-> 0]

\* The web server after init() and main(): no connection, no client, nothing
\* on the broadcast channel, a request arriving.
InitWebWith(requests) ==
    /\ req \in requests
    /\ webpc = "request"
    /\ cmd = "none"
    /\ cmdCtx = "none"
    /\ done = << >>
    /\ response = NoResponse
    /\ conns = [c \in Conns |-> "none"]
    /\ clients = {}
    /\ broadcast = << >>
    /\ emitted = << >>
    /\ written = << >>
    /\ hmpc = "receive"
    /\ msg = NoMessage
    /\ toVisit = {}
    /\ atIntake = {}
    /\ attempted = {}
    /\ delivered = [c \in Conns |-> << >>]
    /\ webCrashed = FALSE

\* ProcessCSV is entered with the places readCSV returned for some input file.
InitScraper(batches) ==
    /\ places \in batches
    /\ updatedPlaces = << >>
    /\ mainpc = "readCSV"
    /\ nextIdx = 1
    /\ wg = 0
    /\ semaphore = 0
    /\ mu = 0
    /\ bar = 0
    /\ pc = [i \in Slots |-> "unspawned"]
    /\ ctx = [i \in Slots |-> "none"]
    /\ lookup = [i \in Slots |-> "none"]
    /\ result = [i \in Slots |-> "unset"]
    /\ panicking = [i \in Slots |-> FALSE]
    /\ crashed = FALSE
    /\ ticks = [i \in Slots |-> 0]
    /\ writes = [i \in Slots |-> << >>]
    /\ phonesFound = -1

\* pipeline.sh is not running: no script variables, an empty directory, no
\* overlapping calls of executePipeline.
NoScript ==
    /\ sh = [pc |-> "none", argc |-> 4, CHROME_BIN |-> "", LATEST_CSV |-> "",
             TOTAL_PLACES |-> 0, status |-> -1]
    /\ dir = << >>
    /\ stages = << >>
    /\ runs = << >>

\* A page on which no query finds an element.
NoPage == [buttons |-> << >>, labels |-> << >>, blocks |-> << >>, others |-> << >>]

\* formatPhone is about to be called on one of the given strings.
InitFormat(texts) ==
    /\ text \in texts
    /\ page = NoPage
    /\ found = << >>
    /\ csvFile = << >>
    /\ NoScript
    /\ formatted = << >>
    /\ reformatted = << >>
    /\ fmtpc = "input"
    /\ valid = FALSE
    /\ enhanced = TRUE
    /\ extracted = << >>

\* The scraper runs as a process of its own (the web server starts it through
\* pipeline.sh with one valid request).
InitWith(batches) ==
    /\ InitWebWith({PipelineRequest("POST", "valid", TRUE)})
    /\ InitScraper(batches)
    /\ InitFormat({<< >>})

Init == InitWith(BatchesUpTo(MaxPlaces))

InitJob == InitWith(BatchesUpTo(MaxJobPlaces))

\* ------------------------------------------------------------ ProcessCSV
\* Mutant: the test of the empty batch is missing.
NoPlacesFound_NoTest == FALSE

\* "if len(places) == 0": ProcessCSV returns "no places found in CSV".
NoPlacesFound == N = 0

\* readCSV returned the places; an empty batch is rejected.
ReadCSV ==
    /\ mainpc = "readCSV"
    /\ ~crashed
    /\ mainpc' = IF NoPlacesFound THEN "rejected" ELSE "newScraper"
    /\ UNCHANGED <<callVars, webVars, places, nextIdx, phonesFound, sharedVars, jobVars>>

\* NewPhoneScraper: fails when Chrome is missing, else the pool starts:
\* processPlacesWithPhones copies places into updatedPlaces.
NewPhoneScraper ==
    /\ mainpc = "newScraper"
    /\ ~crashed
    /\ \/ /\ mainpc' = "scraperError"
          /\ UNCHANGED updatedPlaces
       \/ /\ mainpc' = "loop"
          /\ updatedPlaces' = places
    /\ UNCHANGED <<callVars, webVars, places, nextIdx, phonesFound, jobVars>>
    /\ UNCHANGED <<wg, semaphore, mu, bar, crashed, ticks, writes>>

\* One iteration of "for i := range updatedPlaces": wg.Add(1); go func(i).
Spawn ==
    /\ mainpc = "loop"
    /\ ~crashed
    /\ nextIdx <= N
    /\ wg' = wg + 1
    /\ pc' = [pc EXCEPT ![nextIdx] = "start"]
    /\ nextIdx' = nextIdx + 1
    /\ UNCHANGED <<callVars, webVars, places, mainpc, phonesFound>>
    /\ UNCHANGED <<updatedPlaces, semaphore, mu, bar, crashed, ticks, writes>>
    /\ UNCHANGED <<ctx, lookup, result, panicking>>

\* Mutant: the barrier lets the caller through while one worker is still
\* counted.
WgWaitReady_OneLeft == wg <= 1

\* wg.Wait() returns when the counter is zero.
WgWaitReady == wg = 0

\* The loop has ended; wg.Wait(); bar.Finish(); return updatedPlaces.
WgWait ==
    /\ mainpc = "loop"
    /\ ~crashed
    /\ nextIdx > N
    /\ WgWaitReady
    /\ mainpc' = "returned"
    /\ UNCHANGED <<callVars, webVars, places, nextIdx, phonesFound, sharedVars, jobVars>>

\* saveCSVWithPhones: os.Create or a write may fail, which ends ProcessCSV
\* with "error saving updated CSV".
SaveCSV ==
    /\ mainpc = "returned"
    /\ ~crashed
    /\ \/ mainpc' = "saved"
       \/ mainpc' = "saveError"
    /\ UNCHANGED <<callVars, webVars, places, nextIdx, phonesFound, sharedVars, jobVars>>

\* The statistics loop: counts the places whose ScrapedPhone is not empty.
\* "Mostrar estadísticas": total places, phones found; ProcessCSV returns nil.
Stats ==
    /\ mainpc = "saved"
    /\ ~crashed
    /\ phonesFound' = Cardinality({ i \in Jobs : updatedPlaces[i].ScrapedPhone # "" })
    /\ mainpc' = "done"
    /\ UNCHANGED <<callVars, webVars, places, nextIdx, sharedVars, jobVars>>

\* ------------------------------------------------------------ worker
\* Mutant: a channel buffer one larger than the cap.
SemaphoreHasRoom_OffByOne == semaphore <= maxPhoneWorkers

\* "semaphore <- struct{}{}" can proceed while the channel buffer has room.
SemaphoreHasRoom == semaphore < maxPhoneWorkers

\* The worker acquires a slot, then reads its place: an eligible place goes
\* to ExtractPhoneFromGoogleMapsURL (context.WithTimeout starts the deadline),
\* any other place falls through to the deferred calls.
Acquire(i) ==
    /\ pc[i] = "start"
    /\ ~crashed
    /\ SemaphoreHasRoom
    /\ semaphore' = semaphore + 1
    /\ IF Eligible(i)
         THEN /\ pc' = [pc EXCEPT ![i] = "extract"]
              /\ ctx' = [ctx EXCEPT ![i] = "live"]
         ELSE /\ pc' = [pc EXCEPT ![i] = "release"]
              /\ UNCHANGED ctx
    /\ UNCHANGED <<callVars, webVars, mainVars, lookup, result, panicking>>
    /\ UNCHANGED <<updatedPlaces, wg, mu, bar, crashed, ticks, writes>>

\* The job is inside ExtractPhoneFromGoogleMapsURL: its deadline is running.
InExtract(i) ==
    pc[i] \in {"extract", "navigate", "waitStable", "blocked", "select", "parked"}

\* "if err == nil && phone != """: where the worker goes with what
\* ExtractPhoneFromGoogleMapsURL returned.
AfterExtract(r) == IF r = "phone" THEN "lockWrite" ELSE "sleep"

\* A Must* call of rod panics on an error.  Neither the job nor the worker
\* recovers: the panic unwinds through the deferred calls (page.Close, cancel,
\* then the worker's), skipping the rest of the worker's body.
Panic(i) ==
    /\ pc' = [pc EXCEPT ![i] = "release"]
    /\ panicking' = [panicking EXCEPT ![i] = TRUE]
    /\ ctx' = [ctx EXCEPT ![i] = "done"]
    /\ UNCHANGED <<lookup, result>>

\* page := ps.browser.MustPage(): panics when the browser cannot open a page.
MustPage(i) ==
    /\ pc[i] = "extract"
    /\ ~crashed
    /\ \/ /\ pc' = [pc EXCEPT ![i] = "navigate"]
          /\ UNCHANGED <<ctx, lookup, result, panicking>>
       \/ Panic(i)
    /\ UNCHANGED <<callVars, webVars, mainVars, sharedVars>>

\* page.Navigate(url): returns nil, returns an error (the job returns
\* "failed to navigate to URL": err != nil, nothing is written), or does not
\* return: the page carries no deadline, ctx is only read by the select of
\* findPhoneWithTimeout.
Navigate(i) ==
    /\ pc[i] = "navigate"
    /\ ~crashed
    /\ \/ /\ pc' = [pc EXCEPT ![i] = "waitStable"]
          /\ UNCHANGED <<result, ctx>>
       \/ /\ pc' = [pc EXCEPT ![i] = AfterExtract("navError")]
          /\ result' = [result EXCEPT ![i] = "navError"]
          /\ ctx' = [ctx EXCEPT ![i] = "done"]
       \/ /\ pc' = [pc EXCEPT ![i] = "blocked"]
          /\ UNCHANGED <<result, ctx>>
    /\ UNCHANGED <<callVars, webVars, mainVars, sharedVars, lookup, panicking>>

\* page.MustWaitStable(); time.Sleep(2s); then findPhoneWithTimeout starts
\* the lookup goroutine and reaches its select.  MustWaitStable panics on an
\* error and does not return while the page never becomes stable.
WaitStable(i) ==
    /\ pc[i] = "waitStable"
    /\ ~crashed
    /\ \/ /\ pc' = [pc EXCEPT ![i] = "select"]
          /\ lookup' = [lookup EXCEPT ![i] = "running"]
          /\ UNCHANGED <<result, ctx, panicking>>
       \/ Panic(i)
       \/ /\ pc' = [pc EXCEPT ![i] = "blocked"]
          /\ UNCHANGED <<lookup, result, ctx, panicking>>
    /\ UNCHANGED <<callVars, webVars, mainVars, sharedVars>>

\* ------------------------------------------------------------ findPhoneWithTimeout
\* The lookup goroutine has sent a phone on done / an error on errChan.  The
\* "late" values record that the send came after ctx.Done() was closed.
SentPhone(i) == lookup[i] \in {"sentPhone", "latePhone"}
SentErr(i) == lookup[i] \in {"sentErr", "lateErr"}

\* The cases of the select that can proceed: a phone on done, an error on
\* errChan, ctx.Done() closed.
SelectReady(i) ==
    (IF SentPhone(i) THEN {"phone"} ELSE {}) \cup
    (IF SentErr(i) THEN {"empty"} ELSE {}) \cup
    (IF ctx[i] = "done" THEN {"timeout"} ELSE {})

\* What is left of the lookup goroutine once the select has taken case c: a
\* received value ends it ("none": no goroutine, empty channels); after a
\* timeout the goroutine, or the value it sent, is abandoned.
LookupAfter(i, c) ==
    IF c # "timeout" THEN "none"
    ELSE IF SentPhone(i) THEN "sentPhone"
    ELSE IF SentErr(i) THEN "sentErr"
    ELSE lookup[i]

\* ExtractPhoneFromGoogleMapsURL returns what the select took: the deferred
\* page.Close() and cancel() run, then the worker tests the result.
ReturnFromExtract(i, c) ==
    /\ result' = [result EXCEPT ![i] = c]
    /\ pc' = [pc EXCEPT ![i] = AfterExtract(c)]
    /\ lookup' = [lookup EXCEPT ![i] = LookupAfter(i, c)]
    /\ ctx' = [ctx EXCEPT ![i] = "done"]

\* The select of findPhoneWithTimeout is evaluated: with several cases ready
\* Go picks any of them; with none the goroutine parks on the three channels.
Select(i) ==
    /\ pc[i] = "select"
    /\ ~crashed
    /\ IF SelectReady(i) = {}
         THEN /\ pc' = [pc EXCEPT ![i] = "parked"]
              /\ UNCHANGED <<result, lookup, ctx>>
         ELSE \E c \in SelectReady(i) : ReturnFromExtract(i, c)
    /\ UNCHANGED <<callVars, webVars, mainVars, sharedVars, panicking>>

\* Mutant: done and errChan are made without a buffer: the send waits for
\* the receiver in the select.
SendReady_Unbuffered(i) == pc[i] = "parked"

\* "done <- phone", "errChan <- err" on channels made with capacity 1: the
\* send proceeds while the buffer holds no value, or a receiver is parked.
SendReady(i) == (~SentPhone(i) /\ ~SentErr(i)) \/ pc[i] = "parked"

\* The lookup goroutine: findPhoneNumber returns a phone or "", and the
\* goroutine sends on done or errChan (both buffered, the send never blocks)
\* and ends.  A receiver parked in the select is woken with that case.  Once
\* the worker has left the job's scope nothing can read the channels: only
\* the end of the goroutine is left to see.
LookupReturns(i) ==
    /\ lookup[i] = "running"
    /\ ~crashed
    /\ SendReady(i)
    /\ \E c \in {"phone", "empty"} :
         IF pc[i] = "parked"
           THEN ReturnFromExtract(i, c)
           ELSE /\ lookup' = [lookup EXCEPT ![i] =
                     IF InExtract(i)
                       THEN IF ctx[i] = "done"
                              THEN (IF c = "phone" THEN "latePhone" ELSE "lateErr")
                              ELSE (IF c = "phone" THEN "sentPhone" ELSE "sentErr")
                     ELSE IF pc[i] = "sleep"
                       THEN (IF c = "phone" THEN "sentPhone" ELSE "sentErr")
                     ELSE "none"]
                /\ UNCHANGED <<result, pc, ctx>>
    /\ UNCHANGED <<callVars, webVars, mainVars, sharedVars, panicking>>

\* Mutant: the select has no "case <-ctx.Done()".
DeadlineWakes_NoCase(i) == FALSE

\* ctx.Done() wakes a goroutine parked in the select.
DeadlineWakes(i) == pc[i] = "parked"

\* phoneTimeout elapses while the job is inside ExtractPhoneFromGoogleMapsURL:
\* ctx.Done() is closed.  Only the select reads it.
DeadlineElapses(i) ==
    /\ ctx[i] = "live"
    /\ InExtract(i)
    /\ ~crashed
    /\ IF DeadlineWakes(i)
         THEN ReturnFromExtract(i, "timeout")
         ELSE /\ ctx' = [ctx EXCEPT ![i] = "done"]
              /\ UNCHANGED <<result, pc, lookup>>
    /\ UNCHANGED <<callVars, webVars, mainVars, sharedVars, panicking>>

\* ------------------------------------------------------------ worker, after the job
\* Mutant: the assignment is not guarded, mu.Lock() never waits.
MuLockReady_NoMutex == TRUE

\* mu.Lock() can proceed while no goroutine holds the mutex.
MuLockReady == mu = 0

\* mu.Lock() before the assignment.
LockWrite(i) ==
    /\ pc[i] = "lockWrite"
    /\ ~crashed
    /\ MuLockReady
    /\ mu' = i
    /\ pc' = [pc EXCEPT ![i] = "write"]
    /\ UNCHANGED <<callVars, webVars, mainVars, ctx, lookup, result, panicking>>
    /\ UNCHANGED <<updatedPlaces, wg, semaphore, bar, crashed, ticks, writes>>

\* Mutant: the phone is assigned to the field Phone.
WithScrapedPhone_IntoPhone(place, phone) == [place EXCEPT !.Phone = phone]

\* The place after "place.ScrapedPhone = phone".
WithScrapedPhone(place, phone) == [place EXCEPT !.ScrapedPhone = phone]

\* place.ScrapedPhone = phone; mu.Unlock(), with the phone value
\* ExtractPhoneFromGoogleMapsURL returned to job i.
Write(i) ==
    /\ pc[i] = "write"
    /\ ~crashed
    /\ updatedPlaces' = [updatedPlaces EXCEPT ![PlaceIndex(i)] =
                            WithScrapedPhone(@, IF result[i] = "phone" THEN PhoneOf(i) ELSE "")]
    /\ writes' = [writes EXCEPT ![PlaceIndex(i)] = Append(@, i)]
    /\ mu' = 0
    /\ pc' = [pc EXCEPT ![i] = "sleep"]
    /\ UNCHANGED <<callVars, webVars, mainVars, ctx, lookup, result, panicking>>
    /\ UNCHANGED <<wg, semaphore, bar, crashed, ticks>>

\* The locals phone, err and the channels of the job go out of scope at the
\* end of the worker's body; an abandoned lookup goroutine may still run.
LeaveScope(i) ==
    /\ result' = [result EXCEPT ![i] = "unset"]
    /\ lookup' = [lookup EXCEPT ![i] = IF @ = "running" THEN @ ELSE "none"]

\* Mutant: the tick is made inside the "if", not deferred: a place that is
\* not eligible never ticks.
AfterRelease_TickInsideIf(i) == IF Eligible(i) THEN "barLock" ELSE "wgDone"

\* The deferred calls run on every path, in reverse order of their defer:
\* after "<-semaphore" comes the tick of the progress bar, then wg.Done().
AfterRelease(i) == "barLock"

\* "Rate limiting": time.Sleep(1 * time.Second) with the slot still held;
\* then the body ends and the first deferred call runs: "<-semaphore".
SleepRelease(i) ==
    /\ pc[i] = "sleep"
    /\ ~crashed
    /\ semaphore' = semaphore - 1
    /\ pc' = [pc EXCEPT ![i] = AfterRelease(i)]
    /\ LeaveScope(i)
    /\ UNCHANGED <<callVars, webVars, mainVars, ctx, panicking>>
    /\ UNCHANGED <<updatedPlaces, wg, mu, bar, crashed, ticks, writes>>

\* Mutant: the release is not deferred but part of the eligible branch: a
\* worker that skips its place, or panics, keeps its slot.
Release_InsideIf(i) ==
    /\ pc[i] = "release"
    /\ ~crashed
    /\ pc' = [pc EXCEPT ![i] = AfterRelease(i)]
    /\ UNCHANGED <<callVars, webVars, mainVars, ctx, lookup, result, panicking>>
    /\ UNCHANGED <<updatedPlaces, wg, semaphore, mu, bar, crashed, ticks, writes>>

\* A place that is not eligible, and a panic, skip the sleep: the first
\* deferred call "<-semaphore" runs at once.
Release(i) ==
    /\ pc[i] = "release"
    /\ ~crashed
    /\ semaphore' = semaphore - 1
    /\ pc' = [pc EXCEPT ![i] = AfterRelease(i)]
    /\ UNCHANGED <<callVars, webVars, mainVars, ctx, lookup, result, panicking>>
    /\ UNCHANGED <<updatedPlaces, wg, mu, bar, crashed, ticks, writes>>

\* Second deferred call: mu.Lock() ...
BarLock(i) ==
    /\ pc[i] = "barLock"
    /\ ~crashed
    /\ mu = 0
    /\ mu' = i
    /\ pc' = [pc EXCEPT ![i] = "barAdd"]
    /\ UNCHANGED <<callVars, webVars, mainVars, ctx, lookup, result, panicking>>
    /\ UNCHANGED <<updatedPlaces, wg, semaphore, bar, crashed, ticks, writes>>

\* ... bar.Add(1); mu.Unlock()
BarAdd(i) ==
    /\ pc[i] = "barAdd"
    /\ ~crashed
    /\ bar' = bar + 1
    /\ ticks' = [ticks EXCEPT ![i] = @ + 1]
    /\ mu' = 0
    /\ pc' = [pc EXCEPT ![i] = "wgDone"]
    /\ UNCHANGED <<callVars, webVars, mainVars, ctx, lookup, result, panicking>>
    /\ UNCHANGED <<updatedPlaces, wg, semaphore, crashed, writes>>

\* Last deferred call: wg.Done().  A goroutine that is unwinding a panic has
\* no recover: after its deferred calls the runtime ends the process.
WgDone(i) ==
    /\ pc[i] = "wgDone"
    /\ ~crashed
    /\ wg' = wg - 1
    /\ pc' = [pc EXCEPT ![i] = IF panicking[i] THEN "fatal" ELSE "done"]
    /\ UNCHANGED <<callVars, webVars, mainVars, ctx, lookup, result, panicking>>
    /\ UNCHANGED <<updatedPlaces, semaphore, mu, bar, crashed, ticks, writes>>

\* The unrecovered panic of goroutine i ends the process: nothing runs after.
Fatal(i) ==
    /\ pc[i] = "fatal"
    /\ ~crashed
    /\ crashed' = TRUE
    /\ UNCHANGED <<callVars, webVars, mainVars, jobVars>>
    /\ UNCHANGED <<updatedPlaces, wg, semaphore, mu, bar, ticks, writes>>

\* ------------------------------------------------------------ the job as one call
\* ExtractPhoneFromGoogleMapsURL seen from the worker that calls it: the call
\* returns one of its results, panics (MustPage, MustWaitStable), or does not
\* return (Navigate or MustWaitStable waiting on a page without a deadline).
\* What it can return to the worker: a phone; the errors "no phone found",
\* "failed to navigate to URL", "timeout finding phone".
Extract(i) ==
    /\ pc[i] = "extract"
    /\ ~crashed
    /\ \/ \E r \in {"phone", "empty", "navError", "timeout"} :
            /\ result' = [result EXCEPT ![i] = r]
            /\ pc' = [pc EXCEPT ![i] = AfterExtract(r)]
            /\ ctx' = [ctx EXCEPT ![i] = "done"]
            /\ UNCHANGED <<lookup, panicking>>
       \/ Panic(i)
       \/ /\ pc' = [pc EXCEPT ![i] = "blocked"]
          /\ UNCHANGED <<ctx, lookup, result, panicking>>
    /\ UNCHANGED <<callVars, webVars, mainVars, sharedVars>>

\* ------------------------------------------------------------ specification
\* The steps of a worker around the job.
PoolStep(i) ==
    \/ Acquire(i)
    \/ LockWrite(i)
    \/ Write(i)
    \/ SleepRelease(i)
    \/ Release(i)
    \/ BarLock(i)
    \/ BarAdd(i)
    \/ WgDone(i)
    \/ Fatal(i)

\* The steps inside the job.
JobStep(i) ==
    \/ MustPage(i)
    \/ Navigate(i)
    \/ WaitStable(i)
    \/ Select(i)
    \/ LookupReturns(i)
    \/ DeadlineElapses(i)

MainStep ==
    \/ ReadCSV
    \/ NewPhoneScraper
    \/ Spawn
    \/ WgWait
    \/ SaveCSV
    \/ Stats

\* The worker pool over batches of up to MaxPlaces places, each job one call.
Next ==
    \/ MainStep
    \/ \E i \in Slots : PoolStep(i)
    \/ \E i \in Slots : Extract(i)

Spec == Init /\ [][Next]_vars

\* The same pool over batches of up to MaxJobPlaces places, each job followed
\* step by step.
NextJob ==
    \/ MainStep
    \/ \E i \in Slots : PoolStep(i)
    \/ \E i \in Slots : JobStep(i)

SpecJob == InitJob /\ [][NextJob]_vars

\* ------------------------------------------------------------ readCSV
\* A CSV file has a header and at most MaxRows data rows.  A record of the
\* file has 7 or 8 fields; the fields 4 and 7 are Phone and GoogleURL.
MaxRows == 2

Header == { [fields |-> n, Phone |-> "Phone", GoogleURL |-> "GoogleURL"] : n \in {7, 8} }

Rows ==
    { [fields |-> n, Phone |-> row[1], GoogleURL |-> row[2]] :
          n \in {7, 8}, row \in InputPlaces }

CSVFiles ==
    { << >> } \cup
    UNION { { <<h>> \o rows : h \in Header, rows \in [1..n -> Rows] } : n \in 0..MaxRows }

\* csv.Reader.ReadAll with FieldsPerRecord = 0 (the zero value, never set by
\* readCSV): the number of fields of the first record is required of every
\* later record, else Read fails with ErrFieldCount.
ErrFieldCount(records) ==
    \E k \in 2..Len(records) : records[k].fields # records[1].fields

\* The loop of readCSV over records[1:]: a record of fewer than 8 fields is
\* skipped with a warning, the others are appended; the position among the
\* data rows serves as the name of the place.
RECURSIVE AppendPlaces(_, _)
AppendPlaces(records, i) ==
    IF i > Len(records) THEN << >>
    ELSE IF records[i].fields < 8 THEN AppendPlaces(records, i + 1)
    ELSE <<PlaceWithPhone(i - 1, records[i].Phone, records[i].GoogleURL)>>
             \o AppendPlaces(records, i + 1)

\* readCSV: the error of ReadAll, the error of a file without a data row, or
\* the places.
readCSV(records) ==
    IF ErrFieldCount(records) THEN [err |-> "wrong number of fields", places |-> << >>]
    ELSE IF Len(records) < 2
      THEN [err |-> "CSV must have at least header and one data row", places |-> << >>]
    ELSE [err |-> "", places |-> AppendPlaces(records, 2)]

\* ProcessCSV calls readCSV(csvPath); an error ends ProcessCSV with "error
\* reading CSV".
CallReadCSV ==
    /\ mainpc = "open"
    /\ ~crashed
    /\ places' = readCSV(csvFile).places
    /\ mainpc' = IF readCSV(csvFile).err # "" THEN "readError" ELSE "readCSV"
    /\ UNCHANGED <<callVars, webVars, nextIdx, phonesFound, sharedVars, jobVars>>

\* ProcessCSV is about to read one of the CSV files.
InitReadCSV ==
    /\ InitWebWith({PipelineRequest("POST", "valid", TRUE)})
    /\ csvFile \in CSVFiles
    /\ places = << >>
    /\ updatedPlaces = << >>
    /\ mainpc = "open"
    /\ nextIdx = 1
    /\ wg = 0
    /\ semaphore = 0
    /\ mu = 0
    /\ bar = 0
    /\ pc = [i \in Slots |-> "unspawned"]
    /\ ctx = [i \in Slots |-> "none"]
    /\ lookup = [i \in Slots |-> "none"]
    /\ result = [i \in Slots |-> "unset"]
    /\ panicking = [i \in Slots |-> FALSE]
    /\ crashed = FALSE
    /\ ticks = [i \in Slots |-> 0]
    /\ writes = [i \in Slots |-> << >>]
    /\ phonesFound = -1
    /\ text = << >>
    /\ formatted = << >>
    /\ reformatted = << >>
    /\ fmtpc = "input"
    /\ valid = FALSE
    /\ enhanced = TRUE
    /\ extracted = << >>
    /\ page = NoPage
    /\ found = << >>
    /\ NoScript

\* The enhanced scraper from the opening of the CSV file on.
SpecReadCSV == InitReadCSV /\ [][CallReadCSV \/ NextJob]_vars

\* ------------------------------------------------------------ pipeline.sh
\* The most data lines of a prospects file.
MaxCSVPlaces == 1

\* The file mapsscrap-1 writes in this run, and what an earlier run of the
\* pipeline left behind: its collection and the enrichment of it. Every file
\* carries the query and radius of this run, so that the first of
\* CSV_PATTERNS matches each of them.
FreshCSV == "prospects_spa_2km_2.csv"
StaleCSV == "prospects_spa_2km_1.csv"
StaleOutput == "prospects_spa_2km_1_with_phones.csv"

\* A file of the working directory: its name and its lines after the header.
File(name, lines) == [name |-> name, lines |-> lines]

\* OUTPUT_CSV="${LATEST_CSV%%.csv}_with_phones.csv"
OUTPUT_CSV(latest) ==
    CASE latest = FreshCSV -> "prospects_spa_2km_2_with_phones.csv"
      [] latest = StaleCSV -> StaleOutput
      [] OTHER -> "prospects_spa_2km_1_with_phones_with_phones.csv"

\* [ -f name ]
Exists(name) == \E i \in DOMAIN dir : dir[i].name = name

\* ls -t $pattern 2>/dev/null | head -n1
FOUND_CSV == IF dir = << >> THEN "" ELSE Head(dir).name

\* tail -n +2 "$LATEST_CSV" | wc -l
WcLines(name) == (CHOOSE f \in {dir[i] : i \in DOMAIN dir} : f.name = name).lines

\* exit, and the exit of set -e after a failed command.
Exit(status) == [sh EXCEPT !.pc = "exit", !.status = status]

\* if [ $# -ne 4 ]
ValidateArgs ==
    /\ sh.pc = "args"
    /\ sh' = IF sh.argc # 4 THEN Exit(1) ELSE [sh EXCEPT !.pc = "chrome"]
    /\ UNCHANGED <<dir, stages, runs>>
    /\ UNCHANGED <<text, formatted, reformatted, fmtpc, valid, enhanced, extracted, page,
                   found, csvFile>>
    /\ UNCHANGED <<scraperVars, webVars>>

\* The search for google-chrome finds it or leaves CHROME_BIN empty.
VerifyChrome ==
    /\ sh.pc = "chrome"
    /\ \E bin \in {"", "/usr/bin/google-chrome"} :
           sh' = [sh EXCEPT !.CHROME_BIN = bin,
                            !.pc = IF bin = "" THEN "install" ELSE "binary"]
    /\ UNCHANGED <<dir, stages, runs>>
    /\ UNCHANGED <<text, formatted, reformatted, fmtpc, valid, enhanced, extracted, page,
                   found, csvFile>>
    /\ UNCHANGED <<scraperVars, webVars>>

\* The installation of Chrome succeeds, or the script exits with failure.
InstallChrome ==
    /\ sh.pc = "install"
    /\ \E installed \in BOOLEAN :
           sh' = IF installed
                 THEN [sh EXCEPT !.CHROME_BIN = "/usr/bin/google-chrome", !.pc = "binary"]
                 ELSE Exit(1)
    /\ UNCHANGED <<dir, stages, runs>>
    /\ UNCHANGED <<text, formatted, reformatted, fmtpc, valid, enhanced, extracted, page,
                   found, csvFile>>
    /\ UNCHANGED <<scraperVars, webVars>>

\* if [ ! -f "./mapsscrap-1" ]
VerifyMapsscrap ==
    /\ sh.pc = "binary"
    /\ \E exists \in BOOLEAN :
           sh' = IF exists THEN [sh EXCEPT !.pc = "step1"] ELSE Exit(1)
    /\ UNCHANGED <<dir, stages, runs>>
    /\ UNCHANGED <<text, formatted, reformatted, fmtpc, valid, enhanced, extracted, page,
                   found, csvFile>>
    /\ UNCHANGED <<scraperVars, webVars>>

\* Step 1: mapsscrap-1 exits with some status, having written its CSV or not.
\* Under set -e a non-zero status ends the script.
Step1 ==
    /\ sh.pc = "step1"
    /\ \E status \in {0, 1}, wrote \in BOOLEAN, lines \in 0..MaxCSVPlaces :
           /\ wrote \/ lines = 0
           /\ dir' = IF wrote THEN <<File(FreshCSV, lines)>> \o dir ELSE dir
           /\ stages' = Append(stages, [name |-> "mapsscrap-1", status |-> status,
                                        csv |-> IF wrote THEN FreshCSV ELSE "",
                                        lines |-> lines])
           /\ sh' = IF status # 0 THEN Exit(1) ELSE [sh EXCEPT !.pc = "find"]
    /\ UNCHANGED <<text, formatted, reformatted, fmtpc, valid, enhanced, extracted, page,
                   found, csvFile, runs>>
    /\ UNCHANGED <<scraperVars, webVars>>

\* The loop over CSV_PATTERNS: the newest file a pattern matches.
FindCSV ==
    /\ sh.pc = "find"
    /\ sh' = IF FOUND_CSV = "" THEN Exit(1)
             ELSE [sh EXCEPT !.LATEST_CSV = FOUND_CSV, !.pc = "count"]
    /\ UNCHANGED <<dir, stages, runs>>
    /\ UNCHANGED <<text, formatted, reformatted, fmtpc, valid, enhanced, extracted, page,
                   found, csvFile>>
    /\ UNCHANGED <<scraperVars, webVars>>

\* TOTAL_PLACES, and the exit with success when the CSV holds no place.
CountPlaces ==
    /\ sh.pc = "count"
    /\ sh' = IF WcLines(sh.LATEST_CSV) = 0
             THEN [Exit(0) EXCEPT !.TOTAL_PLACES = 0]
             ELSE [sh EXCEPT !.TOTAL_PLACES = WcLines(sh.LATEST_CSV), !.pc = "step2"]
    /\ UNCHANGED <<dir, stages, runs>>
    /\ UNCHANGED <<text, formatted, reformatted, fmtpc, valid, enhanced, extracted, page,
                   found, csvFile>>
    /\ UNCHANGED <<scraperVars, webVars>>

\* Step 2: phone_scraper csv --file "$LATEST_CSV" exits with some status,
\* having written its output or not.
Step2 ==
    /\ sh.pc = "step2"
    /\ \E status \in {0, 1}, wrote \in BOOLEAN :
           /\ dir' = IF wrote /\ ~Exists(OUTPUT_CSV(sh.LATEST_CSV))
                     THEN <<File(OUTPUT_CSV(sh.LATEST_CSV), sh.TOTAL_PLACES)>> \o dir
                     ELSE dir
           /\ stages' = Append(stages, [name |-> "phone_scraper", status |-> status,
                                        csv |-> sh.LATEST_CSV, lines |-> sh.TOTAL_PLACES])
           /\ sh' = IF status # 0 THEN Exit(1) ELSE [sh EXCEPT !.pc = "output"]
    /\ UNCHANGED <<text, formatted, reformatted, fmtpc, valid, enhanced, extracted, page,
                   found, csvFile, runs>>
    /\ UNCHANGED <<scraperVars, webVars>>

\* if [ -f "$OUTPUT_CSV" ]
VerifyOutput ==
    /\ sh.pc = "output"
    /\ sh' = IF Exists(OUTPUT_CSV(sh.LATEST_CSV)) THEN Exit(0) ELSE Exit(1)
    /\ UNCHANGED <<dir, stages, runs>>
    /\ UNCHANGED <<text, formatted, reformatted, fmtpc, valid, enhanced, extracted, page,
                   found, csvFile>>
    /\ UNCHANGED <<scraperVars, webVars>>

\* The web server has started ./pipeline.sh with three or four arguments.
\* The working directory when the script starts, newest file first: empty, or
\* holding the files of an earlier run.
InitPipeline ==
    /\ InitWebWith({PipelineRequest("POST", "valid", TRUE)})
    /\ InitScraper({<< >>})
    /\ text = << >>
    /\ formatted = << >>
    /\ reformatted = << >>
    /\ fmtpc = "input"
    /\ valid = FALSE
    /\ enhanced = TRUE
    /\ extracted = << >>
    /\ page = NoPage
    /\ found = << >>
    /\ csvFile = << >>
    /\ \E argc \in {3, 4} :
           sh = [pc |-> "args", argc |-> argc, CHROME_BIN |-> "", LATEST_CSV |-> "",
                 TOTAL_PLACES |-> 0, status |-> -1]
    /\ dir \in {<< >>}
                    \cup {<<File(StaleCSV, n)>> : n \in 0..MaxCSVPlaces}
                    \cup {<<File(StaleOutput, n), File(StaleCSV, n)>> : n \in 0..MaxCSVPlaces}
    /\ stages = << >>
    /\ runs = << >>

NextPipeline ==
    \/ ValidateArgs
    \/ VerifyChrome
    \/ InstallChrome
    \/ VerifyMapsscrap
    \/ Step1
    \/ FindCSV
    \/ CountPlaces
    \/ Step2
    \/ VerifyOutput

SpecPipeline == InitPipeline /\ [][NextPipeline]_vars

\* ------------------------------------------------------------ web server: /api/execute
\* A PipelineResponse with Success false and the given message.
Failure(message) == [NoResponse EXCEPT !.Message = message]

\* json.NewEncoder(w).Encode(response) of a failure: the fields fileName,
\* placeCount and phoneCount are omitted when empty.
EncodeFailure(status, r) ==
    [status |-> status, success |-> r.Success, message |-> r.Message]

\* handleExecutePipeline up to the call of executePipeline: an OPTIONS request
\* is answered at once, a body that does not decode or parameters that do not
\* pass the validation are answered with StatusBadRequest.
HandleExecutePipeline ==
    /\ webpc = "request"
    /\ ~webCrashed
    /\ IF req.Method = "OPTIONS"
         THEN /\ webpc' = "responded"
              /\ written' = [status |-> 200]
              /\ UNCHANGED response
         ELSE IF req.Body = "undecodable"
         THEN /\ webpc' = "responded"
              /\ response' = Failure("Invalid request body")
              /\ written' = EncodeFailure(400, response')
         ELSE IF req.Body = "invalid"
         THEN /\ webpc' = "responded"
              /\ response' = Failure("Missing or invalid parameters")
              /\ written' = EncodeFailure(400, response')
         ELSE /\ webpc' = "executePipeline"
              /\ UNCHANGED <<response, written>>
    /\ UNCHANGED <<req, cmd, cmdCtx, done, relayVars, webCrashed>>
    /\ UNCHANGED <<scraperVars, callVars>>

\* "timeout := 5 * time.Minute; if req.IncludePhone { timeout = 10 * time.Minute }"
\* The message of the timeout failure, with the reduce-scope hint.
TimeoutMessage ==
    "El pipeline tardo mas de " \o ToString(IF req.IncludePhone THEN 10 ELSE 5)
        \o " minutos y fue cancelado. Prueba con un radio menor."

\* The deferred cancel() of executePipeline.
Cancel == IF cmdCtx = "live" THEN "cancelled" ELSE cmdCtx

\* executePipeline up to its select loop: context.WithTimeout, the two pipes,
\* cmd.Start().  A pipe or the start may fail, which returns a failure.
StartCommand ==
    /\ webpc = "executePipeline"
    /\ ~webCrashed
    /\ \/ /\ response' = Failure("Error interno del servidor")
          /\ webpc' = "returned"
          /\ cmdCtx' = "cancelled"
          /\ UNCHANGED cmd
       \/ /\ response' = Failure("Error iniciando pipeline")
          /\ webpc' = "returned"
          /\ cmdCtx' = "cancelled"
          /\ UNCHANGED cmd
       \/ /\ cmd' = "running"
          /\ cmdCtx' = "live"
          /\ webpc' = "select"
          /\ UNCHANGED response
    /\ UNCHANGED <<req, done, written, relayVars, webCrashed>>
    /\ UNCHANGED <<scraperVars, callVars>>

\* The pipeline process (pipeline.sh or mapsscrap-1) ends by itself, with
\* exit status 0 or not.
CmdExits ==
    /\ cmd = "running"
    /\ ~webCrashed
    /\ \E status \in {"exit0", "exit1"} : cmd' = status
    /\ UNCHANGED <<req, webpc, cmdCtx, done, response, written, relayVars,
                   webCrashed>>
    /\ UNCHANGED <<scraperVars, callVars>>

\* The deadline of a command started with exec.Command: the context
\* expires and the process goes on.
CmdDeadline_NoKill ==
    /\ cmdCtx = "live"
    /\ webpc = "select"
    /\ ~webCrashed
    /\ cmdCtx' = "expired"
    /\ UNCHANGED <<req, webpc, cmd, done, response, written, relayVars, webCrashed>>
    /\ UNCHANGED <<scraperVars, callVars>>

\* The timeout elapses before executePipeline has returned:
\* exec.CommandContext kills a process that is still running.
CmdDeadline ==
    /\ cmdCtx = "live"
    /\ webpc = "select"
    /\ ~webCrashed
    /\ cmdCtx' = "expired"
    /\ cmd' = IF cmd = "running" THEN "killed" ELSE cmd
    /\ UNCHANGED <<req, webpc, done, response, written, relayVars, webCrashed>>
    /\ UNCHANGED <<scraperVars, callVars>>

\* go func() { done <- cmd.Wait() }(): nil for exit status 0, else an error.
CmdWait ==
    /\ webpc = "select"
    /\ ~webCrashed
    /\ cmd \in {"exit0", "exit1", "killed"}
    /\ done = << >>
    /\ done' = << IF cmd = "exit0" THEN "nil" ELSE "err" >>
    /\ UNCHANGED <<req, webpc, cmd, cmdCtx, response, written, relayVars,
                   webCrashed>>
    /\ UNCHANGED <<scraperVars, callVars>>

\* Mutant: every error of the process is reported as a timeout.
DeadlineExceeded_AnyError == TRUE

\* "if ctx.Err() == context.DeadlineExceeded"
DeadlineExceeded == cmdCtx = "expired"

\* "case err := <-done": an error is reported as a timeout when the deadline
\* was exceeded, else as an error of the pipeline.
SelectDone ==
    /\ webpc = "select"
    /\ ~webCrashed
    /\ done # << >>
    /\ done' = << >>
    /\ IF Head(done) = "err"
         THEN /\ response' = Failure(IF DeadlineExceeded
                                       THEN TimeoutMessage
                                       ELSE "Error en el pipeline")
              /\ webpc' = "returned"
              /\ cmdCtx' = Cancel
         ELSE /\ webpc' = "findLatestCSV"
              /\ UNCHANGED <<response, cmdCtx>>
    /\ UNCHANGED <<req, cmd, written, relayVars, webCrashed>>
    /\ UNCHANGED <<scraperVars, callVars>>

\* "case <-progressTicker.C": every 30 seconds the loop logs that the pipeline
\* is still running and selects again; no variable of the program changes.
ProgressTick ==
    /\ webpc = "select"
    /\ ~webCrashed
    /\ UNCHANGED <<webVars, scraperVars, callVars>>

\* findLatestCSV returns the newest matching file, or "" when there is none.
FindLatestCSV ==
    /\ webpc = "findLatestCSV"
    /\ ~webCrashed
    /\ \/ /\ response' = Failure("no se genero el archivo CSV esperado")
          /\ webpc' = "returned"
          /\ cmdCtx' = Cancel
       \/ /\ webpc' = "countPlacesInCSV"
          /\ UNCHANGED <<response, cmdCtx>>
    /\ UNCHANGED <<req, cmd, done, written, relayVars, webCrashed>>
    /\ UNCHANGED <<scraperVars, callVars>>

\* countPlacesInCSV returns the number of places and of phones of the file
\* (a file of one place here); then the successful PipelineResponse is
\* returned.
CountPlacesInCSV ==
    /\ webpc = "countPlacesInCSV"
    /\ ~webCrashed
    /\ \E phoneCount \in {0, 1} :
         response' = [Success |-> TRUE,
                      Message |-> "Pipeline ejecutado exitosamente",
                      FileName |-> "places.csv",
                      PlaceCount |-> 1,
                      PhoneCount |-> phoneCount]
    /\ webpc' = "returned"
    /\ cmdCtx' = Cancel
    /\ UNCHANGED <<req, cmd, done, written, relayVars, webCrashed>>
    /\ UNCHANGED <<scraperVars, callVars>>

\* handleExecutePipeline after executePipeline: the minimal response (the
\* file name only) is written to the HTTP client by
\* json.NewEncoder(w).Encode(responseMinimal).
WriteResponse ==
    /\ webpc = "returned"
    /\ ~webCrashed
    /\ webpc' = "responded"
    /\ written' = [status |-> 200, fileName |-> response.FileName]
    /\ UNCHANGED <<req, cmd, cmdCtx, done, response, relayVars, webCrashed>>
    /\ UNCHANGED <<scraperVars, callVars>>

\* ------------------------------------------------------------ web server: WebSocket relay
\* handleMessages ranges over clients without a lock.
Ranging == hmpc = "range"

\* handleWebSocket: the upgrade fails, or the connection is registered in
\* clients and the handler reads from it.  The map is written without a
\* lock: when handleMessages is ranging over it the new entry is produced by
\* the range or skipped, or the runtime ends the process with "concurrent
\* map iteration and map write".
HandleWebSocket(c) ==
    /\ conns[c] = "none"
    /\ ~webCrashed
    /\ \/ /\ conns' = [conns EXCEPT ![c] = "refused"]
          /\ UNCHANGED <<clients, toVisit, webCrashed>>
       \/ /\ conns' = [conns EXCEPT ![c] = "open"]
          /\ clients' = clients \cup {c}
          /\ IF Ranging
               THEN \/ toVisit' = toVisit \cup {c} /\ UNCHANGED webCrashed
                    \/ UNCHANGED <<toVisit, webCrashed>>
                    \/ webCrashed' = TRUE /\ UNCHANGED toVisit
               ELSE UNCHANGED <<toVisit, webCrashed>>
    /\ UNCHANGED <<broadcast, emitted, hmpc, msg, atIntake, attempted,
                   delivered>>
    /\ UNCHANGED <<httpVars, scraperVars, callVars>>

\* conn.ReadMessage() fails (the client went away, or handleMessages closed
\* the connection): delete(clients, conn); the deferred conn.Close() is
\* still to run.  The delete is a map write without a lock as well: a range
\* that has not produced the entry yet drops it or not, or the runtime ends
\* the process.
ReadMessageFails(c) ==
    /\ conns[c] \in {"open", "writeFailed"}
    /\ ~webCrashed
    /\ clients' = clients \ {c}
    /\ conns' = [conns EXCEPT ![c] =
                    IF @ = "open" THEN "deleted" ELSE "deletedAfterWriteError"]
    /\ IF Ranging
         THEN \/ toVisit' = toVisit \ {c} /\ UNCHANGED webCrashed
              \/ UNCHANGED <<toVisit, webCrashed>>
              \/ webCrashed' = TRUE /\ UNCHANGED toVisit
         ELSE UNCHANGED <<toVisit, webCrashed>>
    /\ UNCHANGED <<broadcast, emitted, hmpc, msg, atIntake, attempted,
                   delivered>>
    /\ UNCHANGED <<httpVars, scraperVars, callVars>>

\* The deferred conn.Close() of handleWebSocket; the handler ends.
ConnClose(c) ==
    /\ conns[c] \in {"deleted", "deletedAfterWriteError"}
    /\ ~webCrashed
    /\ conns' = [conns EXCEPT ![c] =
                    IF @ = "deleted" THEN "closed" ELSE "closedAfterWriteError"]
    /\ UNCHANGED <<clients, broadcast, emitted, hmpc, msg, toVisit, atIntake,
                   attempted, delivered, webCrashed>>
    /\ UNCHANGED <<httpVars, scraperVars, callVars>>

\* handleMessages, "msg := <-broadcast": a message is received and the range
\* over clients starts.
HandleMessagesReceive ==
    /\ hmpc = "receive"
    /\ ~webCrashed
    /\ broadcast # << >>
    /\ msg' = Head(broadcast)
    /\ broadcast' = Tail(broadcast)
    /\ toVisit' = clients
    /\ atIntake' = clients
    /\ attempted' = {}
    /\ hmpc' = "range"
    /\ UNCHANGED <<conns, clients, emitted, delivered, webCrashed>>
    /\ UNCHANGED <<httpVars, scraperVars, callVars>>

\* Mutant: the client whose write failed is closed but stays in the map.
ClientsAfterWriteError_Kept(c) == clients

\* "client.Close(); delete(clients, client)"
ClientsAfterWriteError(c) == clients \ {c}

\* One iteration of "for client := range clients": client.WriteJSON(msg)
\* succeeds (only on a connection that nobody has closed yet), or fails and
\* the client is closed and deleted.
HandleMessagesWrite(c) ==
    /\ Ranging
    /\ ~webCrashed
    /\ c \in toVisit
    /\ toVisit' = toVisit \ {c}
    /\ attempted' = attempted \cup {c}
    /\ \/ /\ conns[c] \in {"open", "deleted"}
          /\ delivered' = [delivered EXCEPT ![c] = Append(@, msg.Seq)]
          /\ UNCHANGED <<conns, clients>>
       \/ /\ conns' = [conns EXCEPT ![c] =
                          IF @ = "open" THEN "writeFailed"
                          ELSE IF @ = "deleted" THEN "deletedAfterWriteError"
                          ELSE @]
          /\ clients' = ClientsAfterWriteError(c)
          /\ UNCHANGED delivered
    /\ UNCHANGED <<broadcast, emitted, hmpc, msg, atIntake, webCrashed>>
    /\ UNCHANGED <<httpVars, scraperVars, callVars>>

\* The range has produced every entry: back to "msg := <-broadcast".
HandleMessagesNext ==
    /\ Ranging
    /\ ~webCrashed
    /\ toVisit = {}
    /\ hmpc' = "receive"
    /\ msg' = NoMessage
    /\ UNCHANGED <<conns, clients, broadcast, emitted, toVisit, atIntake,
                   attempted, delivered, webCrashed>>
    /\ UNCHANGED <<httpVars, scraperVars, callVars>>

\* The intake of the relay: a ProgressMessage is sent on the unbuffered
\* channel broadcast, where it waits for handleMessages to receive it.  No
\* statement of the program makes this send; it is the producer the
\* broadcaster is specified for.
SendBroadcast ==
    /\ ~webCrashed
    /\ broadcast = << >>
    /\ Len(emitted) < MaxEvents
    /\ LET event == [Type |-> "progress", Seq |-> Len(emitted) + 1]
       IN /\ broadcast' = << event >>
          /\ emitted' = Append(emitted, event)
    /\ UNCHANGED <<conns, clients, hmpc, msg, toVisit, atIntake, attempted,
                   delivered, webCrashed>>
    /\ UNCHANGED <<httpVars, scraperVars, callVars>>

\* ------------------------------------------------------------ web server: specifications
\* The web server serving one pipeline request and up to MaxConns WebSocket
\* connections; the scraper it starts is the process cmd.  handleMessages
\* waits on broadcast throughout: nothing is sent on it.
InitWeb ==
    /\ InitWebWith({ PipelineRequest(m, b, p) :
                       m \in {"POST", "OPTIONS"}, b \in {"undecodable", "invalid", "valid"},
                       p \in BOOLEAN })
    /\ InitScraper({<< >>})
    /\ InitFormat({<< >>})

NextWeb ==
    \/ HandleExecutePipeline
    \/ StartCommand
    \/ CmdExits
    \/ CmdDeadline
    \/ CmdWait
    \/ SelectDone
    \/ ProgressTick
    \/ FindLatestCSV
    \/ CountPlacesInCSV
    \/ WriteResponse
    \/ \E c \in Conns : HandleWebSocket(c)
    \/ \E c \in Conns : ReadMessageFails(c)
    \/ \E c \in Conns : ConnClose(c)

SpecWeb == InitWeb /\ [][NextWeb]_vars

\* The same server under the scheduling the runtime gives it: the timer of
\* context.WithTimeout fires when the deadline is reached, the goroutine of
\* cmd.Wait() and the goroutine of executePipeline are scheduled while they
\* can take a step, and a select whose done case stays ready takes it.  The
\* pipeline process itself is under no obligation to exit.
SpecWebLive ==
    /\ SpecWeb
    /\ WF_vars(CmdDeadline)
    /\ WF_vars(CmdWait)
    /\ WF_vars(SelectDone)
    /\ WF_vars(FindLatestCSV)
    /\ WF_vars(CountPlacesInCSV)

\* ------------------------------------------------------------ web server: overlapping runs
\* net/http serves every request in a goroutine of its own and
\* handleExecutePipeline takes no lock: up to MaxRuns calls of executePipeline
\* are in progress at once, all in the working directory of the server.
MaxRuns == 2

\* findLatestCSV(keyword, radius) over the working directory, newest file
\* first: the six patterns in their order, for each the newest file that
\* matches; the search stops at the first pattern with a match.  A radius is
\* held in tenths of a kilometre; "%.0f" rounds half to even.  The result is
\* the file in a sequence, or the empty sequence for ("", "").
findLatestCSV(keyword, radius) ==
    LET whole == radius \div 10
        tenth == radius % 10
        f1 == ToString(whole) \o "." \o ToString(tenth)
        f0 == ToString(IF tenth > 5 \/ (tenth = 5 /\ whole % 2 = 1)
                         THEN whole + 1 ELSE whole)
        Glob(p, f) ==
            CASE p = 1 -> f.keyword = keyword /\ f.radius = f1
              [] p = 2 -> f.keyword = keyword /\ f.radius = f0
              [] p = 3 -> f.keyword = keyword /\ f.phones
              [] p = 4 -> f.keyword = keyword
              [] p = 5 -> f.phones
              [] p = 6 -> TRUE
        matching == {p \in 1..6 : \E i \in DOMAIN dir : Glob(p, dir[i])}
    IN  IF matching = {}
          THEN << >>
          ELSE LET pattern == CHOOSE p \in matching : \A q \in matching : p <= q
                   latest == CHOOSE i \in DOMAIN dir :
                                 /\ Glob(pattern, dir[i])
                                 /\ \A j \in DOMAIN dir : Glob(pattern, dir[j]) => i <= j
               IN  << dir[latest] >>

\* The process of run r ends by itself.  With exit status 0 it has written
\* its CSV or not: the collection of mapsscrap-1, named after the keyword and
\* the radius as strconv.FormatFloat(req.Radius, 'f', -1, 64) passed it, and
\* with IncludePhone the enrichment of pipeline.sh after it.
RunExits(r) ==
    /\ r \in DOMAIN runs
    /\ runs[r].pc = "running"
    /\ \E status \in {"exit0", "exit1"}, wrote \in BOOLEAN :
         LET radiusStr == IF runs[r].Radius % 10 = 0
                            THEN ToString(runs[r].Radius \div 10)
                            ELSE ToString(runs[r].Radius \div 10) \o "."
                                     \o ToString(runs[r].Radius % 10)
             csv(phones) == [run |-> r, keyword |-> runs[r].Keyword,
                             radius |-> radiusStr, phones |-> phones]
         IN  /\ status = "exit1" => ~wrote
             /\ runs' = [runs EXCEPT ![r].pc = status]
             /\ dir' = IF ~wrote THEN dir
                       ELSE IF runs[r].IncludePhone
                       THEN <<csv(TRUE), csv(FALSE)>> \o dir
                       ELSE <<csv(FALSE)>> \o dir
    /\ UNCHANGED <<text, formatted, reformatted, fmtpc, valid, enhanced, extracted, page,
                   found, csvFile, sh, stages>>
    /\ UNCHANGED <<scraperVars, webVars>>

\* "case err := <-done" of run r: a failure without a file when the process
\* failed, else the file findLatestCSV(req.Keyword, req.Radius) selects.
RunReturns(r) ==
    /\ r \in DOMAIN runs
    /\ runs[r].pc \in {"exit0", "exit1"}
    /\ runs' = [runs EXCEPT ![r].pc = "returned",
                            ![r].file = IF runs[r].pc = "exit0"
                                          THEN findLatestCSV(runs[r].Keyword, runs[r].Radius)
                                          ELSE << >>]
    /\ UNCHANGED <<text, formatted, reformatted, fmtpc, valid, enhanced, extracted, page,
                   found, csvFile, sh, dir, stages>>
    /\ UNCHANGED <<scraperVars, webVars>>

\* MaxRuns requests have passed the validation and their processes are
\* running; the directory is empty or holds the file of a run that ended
\* before (run 0).
InitOverlap ==
    /\ InitWebWith({PipelineRequest("POST", "valid", TRUE)})
    /\ InitScraper({<< >>})
    /\ text = << >>
    /\ formatted = << >>
    /\ reformatted = << >>
    /\ fmtpc = "input"
    /\ valid = FALSE
    /\ enhanced = TRUE
    /\ extracted = << >>
    /\ page = NoPage
    /\ found = << >>
    /\ csvFile = << >>
    /\ sh = [pc |-> "none", argc |-> 4, CHROME_BIN |-> "", LATEST_CSV |-> "",
             TOTAL_PLACES |-> 0, status |-> -1]
    /\ stages = << >>
    /\ runs \in [1..MaxRuns -> [pc : {"running"}, Keyword : {"cafe", "spa"},
                                Radius : {10, 15}, IncludePhone : BOOLEAN,
                                file : {<< >>}]]
    /\ dir \in {<< >>, << [run |-> 0, keyword |-> "spa", radius |-> "1",
                           phones |-> FALSE] >>}

SpecOverlap ==
    InitOverlap /\ [][\E r \in 1..MaxRuns : RunExits(r) \/ RunReturns(r)]_vars

\* The relay of handleMessages and handleWebSocket with up to MaxEvents
\* messages sent on broadcast and up to MaxConns connections.
InitBroadcast ==
    /\ InitWebWith({PipelineRequest("POST", "valid", TRUE)})
    /\ InitScraper({<< >>})
    /\ InitFormat({<< >>})

NextBroadcast ==
    \/ SendBroadcast
    \/ HandleMessagesReceive
    \/ \E c \in Conns : HandleMessagesWrite(c)
    \/ HandleMessagesNext
    \/ \E c \in Conns : HandleWebSocket(c)
    \/ \E c \in Conns : ReadMessageFails(c)
    \/ \E c \in Conns : ConnClose(c)

SpecBroadcast == InitBroadcast /\ [][NextBroadcast]_vars

\* ------------------------------------------------------------ formatPhone
\* A Go string is the sequence of its bytes, each written as a one-character
\* string.  The strings given to formatPhone are concatenations of at most
\* MaxFragments fragments: the country prefix, a lone "+", runs of distinct
\* digits, each character of the class [\s\-\(\)], and a letter.
MaxFragments == 4

Fragments ==
    { <<"+", "5", "2">>, <<"+">>,
      <<"0", "1", "2", "3", "4">>, <<"5", "6", "7", "8", "9">>, <<"0", "1", "2">>,
      <<" ">>, <<"\t", "\n">>, <<"\f", "\r">>, <<"-">>, <<"(">>, <<")">>,
      <<"a">> }

RECURSIVE Texts(_)
Texts(n) ==
    IF n = 0
      THEN { << >> }
      ELSE LET shorter == Texts(n - 1)
           IN shorter \cup { f \o t : f \in Fragments, t \in shorter }

\* The regular expression `[\s\-\(\)]`; \s of Go's regexp is [\t\n\f\r ].
MatchString(ch) == ch \in {"\t", "\n", "\f", "\r", " ", "-", "(", ")"}

\* regexp.ReplaceAllString(phone, ""): every match is removed.
ReplaceAllString(src) == SelectSeq(src, LAMBDA ch : ~MatchString(ch))

\* strings.HasPrefix and strings.TrimPrefix.
HasPrefix(s, prefix) ==
    /\ Len(s) >= Len(prefix)
    /\ SubSeq(s, 1, Len(prefix)) = prefix

TrimPrefix(s, prefix) ==
    IF HasPrefix(s, prefix) THEN SubSeq(s, Len(prefix) + 1, Len(s)) ELSE s

\* The slice expression s[lo:hi] of Go (0-based, hi excluded).
Slice(s, lo, hi) == SubSeq(s, lo + 1, hi)

\* Mutant: the middle group starts one byte early, cleaned[2:5].
Sprintf_Overlapping(cleaned) ==
    Slice(cleaned, 0, 3) \o <<" ">> \o Slice(cleaned, 2, 5) \o <<" ">>
        \o Slice(cleaned, 6, Len(cleaned))

\* fmt.Sprintf("%s %s %s", cleaned[:3], cleaned[3:6], cleaned[6:]).
Sprintf(cleaned) ==
    Slice(cleaned, 0, 3) \o <<" ">> \o Slice(cleaned, 3, 6) \o <<" ">>
        \o Slice(cleaned, 6, Len(cleaned))

\* Mutant: the country prefix is tested before the separators are removed.
Cleaned_AfterPrefixTest(phone) == phone

\* "cleaned" at the test of the prefix: phone without the separators.
Cleaned(phone) == ReplaceAllString(phone)

\* formatPhone: the separators are removed; "+52" followed by 10 bytes, or
\* 10 bytes that do not start with "+", are grouped 3-3-4; any other string
\* is returned as it was given.
formatPhone(phone) ==
    LET cleaned == Cleaned(phone)
        prefixed == HasPrefix(cleaned, <<"+", "5", "2">>)
        trimmed == TrimPrefix(cleaned, <<"+", "5", "2">>)
        \* "cleaned" at the second test: reassigned inside the first if
        second == IF prefixed THEN trimmed ELSE cleaned
    IN IF prefixed /\ Len(trimmed) = 10
         THEN Sprintf(trimmed)
         ELSE IF Len(second) = 10 /\ ~HasPrefix(second, <<"+">>)
                THEN Sprintf(second)
                ELSE phone

\* formatPhone(text) returns.
FormatPhone ==
    /\ fmtpc = "input"
    /\ formatted' = formatPhone(text)
    /\ fmtpc' = "formatted"
    /\ UNCHANGED <<text, reformatted, valid, enhanced, extracted, page, found,
                   csvFile, sh, dir, stages, runs>>
    /\ UNCHANGED <<scraperVars, webVars>>

\* formatPhone is called on its own result and returns.
FormatPhoneAgain ==
    /\ fmtpc = "formatted"
    /\ reformatted' = formatPhone(formatted)
    /\ fmtpc' = "reformatted"
    /\ UNCHANGED <<text, formatted, valid, enhanced, extracted, page, found,
                   csvFile, sh, dir, stages, runs>>
    /\ UNCHANGED <<scraperVars, webVars>>

\* The character class \d of Go's regexp: the ASCII digits.
Digit(ch) == ch \in {"0", "1", "2", "3", "4", "5", "6", "7", "8", "9"}

\* Mutant: the pattern has no upper bound, `^\+?\d{10,}$`.
PhonePattern_NoUpperBound(cleaned) ==
    LET digits == IF HasPrefix(cleaned, <<"+">>) THEN Tail(cleaned) ELSE cleaned
    IN /\ Len(digits) >= 10
       /\ \A k \in DOMAIN digits : Digit(digits[k])

\* phonePattern.MatchString(cleaned) for `^\+?\d{10,15}$`: from the start to
\* the end of cleaned, an optional "+" and then 10 to 15 digits.
PhonePattern(cleaned) ==
    LET digits == IF HasPrefix(cleaned, <<"+">>) THEN Tail(cleaned) ELSE cleaned
    IN /\ Len(digits) >= 10
       /\ Len(digits) <= 15
       /\ \A k \in DOMAIN digits : Digit(digits[k])

\* isPhoneNumber: the separators are removed and the rest is matched.
isPhoneNumber(str) == PhonePattern(ReplaceAllString(str))

\* isPhoneNumber(text) returns.
IsPhoneNumber ==
    /\ fmtpc = "input"
    /\ valid' = isPhoneNumber(text)
    /\ fmtpc' = "validated"
    /\ UNCHANGED <<text, formatted, reformatted, enhanced, extracted, page, found,
                   csvFile, sh, dir, stages, runs>>
    /\ UNCHANGED <<scraperVars, webVars>>

InitFormatPhone ==
    /\ InitWebWith({PipelineRequest("POST", "valid", TRUE)})
    /\ InitScraper({<< >>})
    /\ InitFormat(Texts(MaxFragments))

\* ------------------------------------------------------------ extractPhoneFromText
\* The texts given to extractPhoneFromText: concatenations of at most
\* MaxWords of these words (country code, groups of a national number with
\* and without a space or a hyphen, a letter, a space).
MaxWords == 4

Words ==
    { <<"+">>, <<"5", "2">>, <<"5", "2", " ">>,
      <<"5", "5", "1", "2", "3", "4">>,
      <<"5", "5", "1", " ", "2", "3", "4">>,
      <<"5", "5", "1", "-", "2", "3", "4">>,
      <<"5", "6", "7", "8">>, <<" ", "5", "6", "7", "8">>,
      <<"-", "5", "6", "7", "8">>,
      <<"x">>, <<" ">> }

RECURSIVE Sentences(_)
Sentences(n) ==
    IF n = 0
      THEN { << >> }
      ELSE LET shorter == Sentences(n - 1)
           IN shorter \cup { w \o t : w \in Words, t \in shorter }

\* The character class \s of Go's regexp.
Whitespace == {"\t", "\n", "\f", "\r", " "}

DigitChars == {"0", "1", "2", "3", "4", "5", "6", "7", "8", "9"}

\* A regular expression of the scraper is a sequence of items, each one
\* character of a class, either required or optional ("?").
One(class) == [chars |-> class, optional |-> FALSE]
Optional(class) == [chars |-> class, optional |-> TRUE]

\* \d{3} and \d{4}.
D3 == <<One(DigitChars), One(DigitChars), One(DigitChars)>>
D4 == D3 \o <<One(DigitChars)>>

\* `\+?52\s?\d{3}\s?\d{3}\s?\d{4}`
mexicanPhoneRegex ==
    <<Optional({"+"}), One({"5"}), One({"2"}), Optional(Whitespace)>>
        \o D3 \o <<Optional(Whitespace)>> \o D3 \o <<Optional(Whitespace)>> \o D4

\* `\d{3}\s?\d{3}\s?\d{4}`
tenDigitRegex ==
    D3 \o <<Optional(Whitespace)>> \o D3 \o <<Optional(Whitespace)>> \o D4

\* `\d{3}[\s\-]?\d{3}[\s\-]?\d{4}`
generalPhoneRegex ==
    D3 \o <<Optional(Whitespace \cup {"-"})>> \o D3
       \o <<Optional(Whitespace \cup {"-"})>> \o D4

\* The position after the match of re[k..] that starts at str[pos], 0 when
\* there is none; an optional item is tried with its character first
\* (greedy "?", leftmost-first).
RECURSIVE MatchEnd(_, _, _, _)
MatchEnd(str, pos, re, k) ==
    IF k > Len(re)
      THEN pos
      ELSE LET skipped == IF re[k].optional THEN MatchEnd(str, pos, re, k + 1) ELSE 0
           IN IF pos <= Len(str) /\ str[pos] \in re[k].chars
                THEN LET taken == MatchEnd(str, pos + 1, re, k + 1)
                     IN IF taken # 0 THEN taken ELSE skipped
                ELSE skipped

\* regexp.FindString: the leftmost match, "" when there is none.
FindString(re, str) ==
    LET starts == { p \in 1..Len(str) : MatchEnd(str, p, re, 1) # 0 }
    IN IF starts = {}
         THEN << >>
         ELSE LET first == CHOOSE p \in starts : \A q \in starts : p <= q
              IN SubSeq(str, first, MatchEnd(str, first, re, 1) - 1)

\* strings.TrimSpace.
RECURSIVE TrimSpace(_)
TrimSpace(str) ==
    IF str = << >> THEN str
    ELSE IF Head(str) \in Whitespace THEN TrimSpace(Tail(str))
    ELSE IF str[Len(str)] \in Whitespace THEN TrimSpace(SubSeq(str, 1, Len(str) - 1))
    ELSE str

\* extractPhoneFromText: the match of mexicanPhoneRegex goes through
\* formatPhone, the match of tenDigitRegex is returned trimmed; only
\* phone_scraper.go goes on to generalPhoneRegex.
extractPhoneFromText(str) ==
    LET mexican == FindString(mexicanPhoneRegex, str)
        tenDigit == FindString(tenDigitRegex, str)
        general == FindString(generalPhoneRegex, str)
    IN IF mexican # << >> THEN formatPhone(TrimSpace(mexican))
       ELSE IF tenDigit # << >> THEN TrimSpace(tenDigit)
       ELSE IF ~enhanced /\ general # << >> THEN TrimSpace(general)
       ELSE << >>

\* extractPhoneFromText(text) returns.
ExtractPhoneFromText ==
    /\ fmtpc = "input"
    /\ extracted' = extractPhoneFromText(text)
    /\ fmtpc' = "extracted"
    /\ UNCHANGED <<text, formatted, reformatted, valid, enhanced, page, found,
                   csvFile, sh, dir, stages, runs>>
    /\ UNCHANGED <<scraperVars, webVars>>

\* The input of the call that returned is taken to the scraper of the other
\* file: the single-URL path of phone_scraper.go or the batch path.
OtherFile ==
    /\ fmtpc \in {"extracted", "located"}
    /\ enhanced' = ~enhanced
    /\ fmtpc' = IF fmtpc = "extracted" THEN "sameText" ELSE "samePage"
    /\ UNCHANGED <<text, formatted, reformatted, valid, extracted, page, found,
                   csvFile, sh, dir, stages, runs>>
    /\ UNCHANGED <<scraperVars, webVars>>

\* extractPhoneFromText of the other file returns on the same text.
ExtractPhoneFromTextOther ==
    /\ fmtpc = "sameText"
    /\ extracted' = extractPhoneFromText(text)
    /\ fmtpc' = "extractedOther"
    /\ UNCHANGED <<text, formatted, reformatted, valid, enhanced, page, found,
                   csvFile, sh, dir, stages, runs>>
    /\ UNCHANGED <<scraperVars, webVars>>

\* Either scraper is about to call extractPhoneFromText on a text.
InitExtract ==
    /\ InitWebWith({PipelineRequest("POST", "valid", TRUE)})
    /\ InitScraper({<< >>})
    /\ text \in Sentences(MaxWords)
    /\ enhanced \in BOOLEAN
    /\ formatted = << >>
    /\ reformatted = << >>
    /\ fmtpc = "input"
    /\ valid = FALSE
    /\ extracted = << >>
    /\ page = NoPage
    /\ found = << >>
    /\ csvFile = << >>
    /\ NoScript

SpecExtract ==
    InitExtract /\ [][ExtractPhoneFromText \/ OtherFile \/ ExtractPhoneFromTextOther]_vars

\* ------------------------------------------------------------ findPhoneNumber
\* At most MaxElements elements are returned by each page.Elements query.
MaxElements == 1

\* A national number of 10 digits ending in d; each place of the page
\* carries its own number.
National(d) == <<"5", "5", "1", "2", "3", "4", "5", "6", "7", d>>

\* The substring "phone:tel:" of a data-item-id, kept as one item of the
\* attribute; the other items are its characters.
PhoneTel == "phone:tel:"

\* button[data-item-id*='phone']: the attribute without "phone:tel:", with
\* nothing after it, and with a number after it; the text of the button
\* without and with a number.
Buttons ==
    [dataItemId : { <<"p", "h", "o", "n", "e">>,
                    <<PhoneTel>>,
                    <<PhoneTel, "+", "5", "2">> \o National("1") },
     text : { <<"x">>, National("2") }]

\* The sequences of at most n elements of S.
UpTo(S, n) == UNION { [1..k -> S] : k \in 0..n }

\* button[aria-label*='Teléfono']: the label without and with a number.
\* .Io6YTe.fontBodyMedium.kR99db.fdkmkc: a text that is no phone number, a
\* number written "55 1234 5674" between spaces, and a number after a word.
\* The text of the other elements of the page: without a number, a number
\* written with hyphens, and 10 digits.
Pages ==
    [buttons : UpTo(Buttons, MaxElements),
     labels : UpTo({ <<"x">>, <<"x", " ", "+", "5", "2", " ">> \o National("3") },
                   MaxElements),
     blocks : UpTo({ <<"x">>,
                     <<" ", "5", "5", " ", "1", "2", "3", "4", " ", "5", "6", "7", "4", " ">>,
                     <<"x", " ">> \o National("4") },
                   MaxElements),
     others : UpTo({ <<"x">>,
                     <<"5", "5", "1", "-", "2", "3", "4", "-", "5", "6", "7", "5">>,
                     National("5") },
                   MaxElements)]

\* strings.Contains(*dataItemId, "phone:tel:").
Contains(str, item) == \E k \in DOMAIN str : str[k] = item

\* strings.Replace(*dataItemId, "phone:tel:", "", 1).
Replace(str, item) ==
    LET first == CHOOSE k \in DOMAIN str :
                     str[k] = item /\ \A l \in 1..(k - 1) : str[l] # item
    IN IF Contains(str, item)
         THEN SubSeq(str, 1, first - 1) \o SubSeq(str, first + 1, Len(str))
         ELSE str

\* What a strategy hands back: whether it executed a return, and the phone.
Return(phone) == [returned |-> TRUE, phone |-> phone]
NoReturn == [returned |-> FALSE, phone |-> << >>]

\* Strategy 1, the loop over button[data-item-id*='phone']: the number after
\* "phone:tel:" is returned through formatPhone, else a number in the text of
\* the button.
RECURSIVE ByDataItemId(_)
ByDataItemId(elements) ==
    IF elements = << >> THEN NoReturn
    ELSE LET element == Head(elements)
         IN IF Contains(element.dataItemId, PhoneTel)
              THEN Return(formatPhone(Replace(element.dataItemId, PhoneTel)))
            ELSE IF extractPhoneFromText(element.text) # << >>
              THEN Return(extractPhoneFromText(element.text))
            ELSE ByDataItemId(Tail(elements))

\* Strategy 2, the loop over button[aria-label*='Teléfono'].
RECURSIVE ByAriaLabel(_)
ByAriaLabel(elements) ==
    IF elements = << >> THEN NoReturn
    ELSE IF extractPhoneFromText(Head(elements)) # << >>
      THEN Return(extractPhoneFromText(Head(elements)))
    ELSE ByAriaLabel(Tail(elements))

\* Strategy 3, the loop over the elements of the CSS class: the trimmed text
\* is returned when isPhoneNumber accepts it.
RECURSIVE ByClass(_)
ByClass(elements) ==
    IF elements = << >> THEN NoReturn
    ELSE IF isPhoneNumber(TrimSpace(Head(elements)))
      THEN Return(TrimSpace(Head(elements)))
    ELSE ByClass(Tail(elements))

\* Strategy 4 of phone_scraper.go, the loop over page.Elements("*").
RECURSIVE ByAnyText(_)
ByAnyText(elements) ==
    IF elements = << >> THEN NoReturn
    ELSE IF Head(elements) # << >> /\ extractPhoneFromText(Head(elements)) # << >>
      THEN Return(extractPhoneFromText(Head(elements)))
    ELSE ByAnyText(Tail(elements))

\* page.Elements("*"): every element of the page with its text (the
\* buttons, the blocks, the other elements).
AllElements(pg) ==
    [k \in DOMAIN pg.buttons |-> pg.buttons[k].text] \o pg.blocks \o pg.others

\* findPhoneNumber: the strategies in order, each run only when no earlier
\* one returned; the enhanced scraper has no strategy 4.
findPhoneNumber(pg) ==
    IF ByDataItemId(pg.buttons).returned THEN ByDataItemId(pg.buttons).phone
    ELSE IF ByAriaLabel(pg.labels).returned THEN ByAriaLabel(pg.labels).phone
    ELSE IF ByClass(pg.blocks).returned THEN ByClass(pg.blocks).phone
    ELSE IF ~enhanced /\ ByAnyText(AllElements(pg)).returned
      THEN ByAnyText(AllElements(pg)).phone
    ELSE << >>

\* findPhoneNumber(page) returns; findPhoneWithTimeout and
\* ExtractPhoneFromGoogleMapsURL hand a phone that is not "" on unchanged.
FindPhoneNumber ==
    /\ fmtpc = "input"
    /\ found' = findPhoneNumber(page)
    /\ fmtpc' = "located"
    /\ UNCHANGED <<text, formatted, reformatted, valid, enhanced, extracted, page,
                   csvFile, sh, dir, stages, runs>>
    /\ UNCHANGED <<scraperVars, webVars>>

\* findPhoneNumber of the other file returns on the same page.
FindPhoneNumberOther ==
    /\ fmtpc = "samePage"
    /\ found' = findPhoneNumber(page)
    /\ fmtpc' = "locatedOther"
    /\ UNCHANGED <<text, formatted, reformatted, valid, enhanced, extracted, page,
                   csvFile, sh, dir, stages, runs>>
    /\ UNCHANGED <<scraperVars, webVars>>

\* Either scraper is about to call findPhoneNumber on a page.
InitLocate ==
    /\ InitWebWith({PipelineRequest("POST", "valid", TRUE)})
    /\ InitScraper({<< >>})
    /\ page \in Pages
    /\ enhanced \in BOOLEAN
    /\ text = << >>
    /\ formatted = << >>
    /\ reformatted = << >>
    /\ fmtpc = "input"
    /\ valid = FALSE
    /\ extracted = << >>
    /\ found = << >>
    /\ csvFile = << >>
    /\ NoScript

SpecLocate ==
    InitLocate /\ [][FindPhoneNumber \/ OtherFile \/ FindPhoneNumberOther]_vars

SpecFormatPhone ==
    InitFormatPhone /\ [][FormatPhone \/ FormatPhoneAgain \/ IsPhoneNumber]_vars

\* ------------------------------------------------------------ properties
\* Worker i holds a token of the semaphore: between "semaphore <- struct{}{}"
\* and the deferred "<-semaphore".
HoldsSlot(i) ==
    pc[i] \in {"extract", "navigate", "waitStable", "blocked", "select",
               "parked", "lockWrite", "write", "sleep", "release"}

SlotHolders == { i \in Jobs : HoldsSlot(i) }

\* Job i is an extraction attempt in flight.
InFlight == { i \in Jobs : InExtract(i) }

\* processPlacesWithPhones has returned to ProcessCSV.
Returned == mainpc \in {"returned", "saved", "saveError", "done"}

\* Worker i has run to the end, its deferred calls included.
Completed(i) == pc[i] \in {"done", "fatal"}

\* C1: at no instant do more than maxPhoneWorkers = 3 workers hold a semaphore
\* slot, hence at most 3 extraction attempts are in flight, in every
\* interleaving of the workers.
C1_AtMostThreeInFlight ==
    /\ Cardinality(SlotHolders) <= maxPhoneWorkers
    /\ Cardinality(InFlight) <= maxPhoneWorkers
    /\ semaphore = Cardinality(SlotHolders)

\* C1 witness: the cap binds: three jobs are in flight and a fourth worker
\* waits for a slot.
C1_Witness ==
    /\ Cardinality(InFlight) = maxPhoneWorkers
    /\ \E i \in Jobs : pc[i] = "start"

\* C2: processPlacesWithPhones has returned only if every worker it started
\* has completed: its phone, if any, is in the record and its tick was made.
C2_ReturnsAfterAllJobs ==
    Returned =>
        /\ nextIdx = N + 1
        /\ \A i \in Jobs : /\ Completed(i)
                           /\ ticks[i] = 1
                           /\ mu # i

\* C2 witness: a batch of several places has returned, one of them with a
\* phone written by its job.
C2_Witness ==
    /\ mainpc = "returned"
    /\ N >= 2
    /\ \E i \in Jobs : updatedPlaces[i].ScrapedPhone = PhoneOf(i)

\* C5: each record's ScrapedPhone is assigned at most once, by the job of
\* that record's index and by no other job.
C5_WrittenOnceByOwnJob ==
    \A r \in Jobs :
        /\ Len(writes[r]) <= 1
        /\ \A k \in 1..Len(writes[r]) : writes[r][k] = r
        /\ mainpc \notin {"readCSV", "newScraper", "rejected", "scraperError"}
             => updatedPlaces[r].ScrapedPhone \in {"", PhoneOf(r)}

\* C5 witness: two jobs of one batch have each written their own record.
C5_Witness ==
    \E r, q \in Jobs : /\ r # q
                       /\ writes[r] = <<r>>
                       /\ writes[q] = <<q>>

\* C6: every worker ticks the progress bar at most once; when
\* processPlacesWithPhones returns, and so before the statistics that end the
\* run, each of the N records has ticked exactly once whatever its outcome.
C6_ExactlyNTicks ==
    /\ \A i \in Jobs : ticks[i] <= 1
    /\ bar = Cardinality({ i \in Jobs : ticks[i] = 1 })
    /\ Returned => /\ bar = N
                   /\ \A i \in Jobs : ticks[i] = 1

\* C6 witness: a returned batch holding a place that was not eligible, one
\* whose job found a phone and one whose job failed: all three ticked.
C6_Witness ==
    /\ mainpc = "done"
    /\ bar = N
    /\ \E i, j, k \in Jobs :
         /\ ~Eligible(i)
         /\ Eligible(j) /\ updatedPlaces[j].ScrapedPhone # ""
         /\ Eligible(k) /\ updatedPlaces[k].ScrapedPhone = ""

\* C4: a per-record failure never aborts the batch: the process is not ended
\* by it, and the batch returns with every record ticked and the failing
\* record's ScrapedPhone empty.
C4_FailureNeverAbortsBatch ==
    /\ ~crashed
    /\ \A i \in Jobs :
         result[i] \in {"empty", "navError", "timeout"}
            => updatedPlaces[i].ScrapedPhone = ""

\* C8: the statistics printed after the batch count every record with a
\* non-empty phone, original or extracted.
C8_SummaryCountsAnyPhone ==
    mainpc = "done" =>
        phonesFound = Cardinality({ i \in Jobs :
                          \/ updatedPlaces[i].Phone # ""
                          \/ updatedPlaces[i].ScrapedPhone # "" })

\* ProcessCSV has ended: with an error, or after the statistics.
Finished == mainpc \in {"rejected", "scraperError", "saveError", "done"}

\* Job i is loading its page: MustPage, Navigate, MustWaitStable.
LoadingPage(i) == pc[i] \in {"extract", "navigate", "waitStable", "blocked"}

\* place.ScrapedPhone of record i ("" while the copy has not been made).
ScrapedPhoneOf(i) ==
    IF i \in DOMAIN updatedPlaces THEN updatedPlaces[i].ScrapedPhone ELSE ""

\* Job i's call of ExtractPhoneFromGoogleMapsURL returned the timeout failure.
TimedOut(i) == i \in Jobs /\ result[i] = "timeout"

\* C3: no job is blocked forever, the deadline ends it: as long as the batch
\* has not ended (and the process was not killed), some step of the program
\* is possible.
C3_NoJobBlockedForever == Finished \/ crashed \/ ENABLED NextJob

C10_DeadlineBoundsPageLoad ==
    [][\A i \in Jobs :
          (LoadingPage(i) /\ ctx[i] = "done" /\ pc'[i] # pc[i])
          => result'[i] = "timeout"]_vars

\* executePipeline has returned a successful PipelineResponse.
RunSucceeded == webpc \in {"returned", "responded"} /\ response.Success

\* C7: a run that has ended successfully has emitted its terminal Complete
\* event (after the pipeline process ended), and that event is the last one
\* emitted for the run.
C7_CompleteIsLastEvent ==
    RunSucceeded =>
        /\ emitted # << >>
        /\ emitted[Len(emitted)].Type = "complete"

PoolStarted == mainpc \in {"loop", "returned", "saved", "saveError", "done"}

\* C12 as stated: a batch without any eligible place (no original phone and
\* a URL) is rejected: the pool is never started for it and no output file
\* is written.
C12_ZeroEligibleRejected ==
    PoolStarted =>
        \E i \in Jobs : places[i].Phone = "" /\ places[i].GoogleURL # ""

\* C12 amended: a batch of zero places is rejected with an error, without
\* the scraper or the pool being started and without an output file; and
\* only such a batch is rejected so.
C12_EmptyBatchRejected ==
    /\ N = 0 => /\ mainpc \in {"readCSV", "rejected"}
                /\ updatedPlaces = << >>
                /\ wg = 0
    /\ mainpc = "rejected" => N = 0

\* C12 witness: ProcessCSV has returned "no places found in CSV".
C12_Witness == mainpc = "rejected" /\ N = 0 /\ updatedPlaces = << >>

\* C18: the slice processPlacesWithPhones returns has the length and the
\* order of its input, each place differs from its input at most in
\* ScrapedPhone, and the input slice is never modified.
C18_OnlyScrapedPhoneChanges ==
    /\ [](PoolStarted =>
            /\ Len(updatedPlaces) = Len(places)
            /\ \A i \in Jobs :
                 [updatedPlaces[i] EXCEPT !.ScrapedPhone = ""] = places[i])
    /\ [][places' = places]_vars

\* C18 witness: the pool has returned a batch of two places or more, one of
\* them with a ScrapedPhone written and one without.
C18_Witness ==
    /\ mainpc = "returned"
    /\ \E i, j \in Jobs :
         /\ i < j
         /\ updatedPlaces[i].Name = i /\ updatedPlaces[j].Name = j
         /\ updatedPlaces[i].ScrapedPhone # updatedPlaces[j].ScrapedPhone

\* The clients registered when msg was received that are still connected
\* and have not been written msg yet.
StillToWrite == { c \in atIntake \ attempted : conns[c] = "open" }

\* C13: every message received from broadcast is written to every client
\* registered at that moment (as long as it stays connected), at most once
\* to each, and to no client that registered later: no range ends, and the
\* process does not end, with such a client left out.
C13_ForwardedOnceToRegistered ==
    /\ [](\A c \in Conns : \A k, l \in DOMAIN delivered[c] :
            k # l => delivered[c][k] # delivered[c][l])
    /\ [][\A c \in Conns : delivered'[c] # delivered[c] => c \in atIntake]_vars
    /\ [][(Ranging /\ hmpc' = "receive") => StillToWrite = {}]_vars
    /\ []((webCrashed /\ Ranging) => StillToWrite = {})

\* C14 as stated: a client is removed only when a write to it has failed: a
\* client that registered and never had a write fail is still in clients.
C14_RemovedOnlyOnWriteError ==
    \A c \in Conns : conns[c] \in {"open", "deleted", "closed"} => c \in clients

\* C14 amended: a client leaves clients at once when a write to it fails or
\* when reading from its connection fails, and by no other step; a message is
\* only written to a client the running range still holds, and a client that
\* is no longer registered is held only by the range that was running when
\* it was removed (it is written no message received after its removal); a
\* registered client whose writes all succeeded and whose connection is
\* still read is in clients.
C14_RemovedOnWriteOrReadError ==
    /\ [](clients = { c \in Conns : conns[c] = "open" })
    /\ [][\A c \in Conns :
            (c \in clients /\ c \notin clients')
            => conns'[c] \in {"writeFailed", "deleted"}]_vars
    /\ [][\A c \in Conns :
            delivered'[c] # delivered[c]
            => (c \in toVisit /\ delivered'[c] = Append(delivered[c], msg.Seq))]_vars
    /\ [][\A c \in Conns :
            (c \notin clients' /\ c \in toVisit')
            => (c \in toVisit /\ msg' = msg)]_vars

\* C14 witness: one client was removed because a write to it failed, another
\* because its read failed, after a message had been written to it.
C14_Witness ==
    \E c, d \in Conns :
        /\ conns[c] = "writeFailed"
        /\ conns[d] = "closed"
        /\ delivered[d] # << >>
        /\ clients = {}

\* C15: clients is never written by handleWebSocket while handleMessages
\* ranges over it: during a range, no client is registered and no handler
\* calls delete.
C15_NoMutationWhileRanging ==
    [][Ranging =>
         \A c \in Conns :
            /\ ~(c \notin clients /\ c \in clients')
            /\ ~(conns[c] \in {"open", "writeFailed"}
                   /\ conns'[c] \in {"deleted", "deletedAfterWriteError"})]_vars

\* executePipeline has returned its PipelineResponse.
PipelineReturned == webpc \in {"returned", "responded"} /\ cmdCtx # "none"

\* The timeout failure as the caller reads it, spelled for both deadlines.
ReduceScopeHint ==
    IF req.IncludePhone
      THEN "El pipeline tardo mas de 10 minutos y fue cancelado. Prueba con un radio menor."
      ELSE "El pipeline tardo mas de 5 minutos y fue cancelado. Prueba con un radio menor."

\* C16: the process runs under a deadline of 5 minutes without phones and of
\* 10 minutes with them; a process still running when the deadline elapses
\* is killed and the run is reported as a timeout with the reduce-scope
\* hint; a timeout is reported only when the deadline was exceeded, any other
\* failure of the process gets the generic failure.
C16_TimeoutClassification ==
    /\ [][(cmd = "running" /\ cmdCtx = "live" /\ cmdCtx' = "expired")
            => cmd' = "killed"]_vars
    /\ [](cmd = "killed" => cmdCtx = "expired")
    /\ []((PipelineReturned /\ cmd = "killed")
            => (~response.Success /\ response.Message = ReduceScopeHint))
    /\ []((PipelineReturned /\ response.Message = ReduceScopeHint)
            => (cmdCtx = "expired" /\ cmd \in {"killed", "exit1"}))
    /\ []((PipelineReturned /\ cmd = "exit1" /\ cmdCtx # "expired")
            => (~response.Success /\ response.Message = "Error en el pipeline"))

\* C16 witness: a pipeline without phones was killed at its deadline and the
\* 5-minute timeout was returned.
C16_Witness ==
    /\ webpc = "returned"
    /\ ~req.IncludePhone
    /\ cmd = "killed"
    /\ response.Message =
         "El pipeline tardo mas de 5 minutos y fue cancelado. Prueba con un radio menor."

\* C17: what /api/execute writes to its caller after executePipeline carries
\* the outcome and the counts of the PipelineResponse: success and message
\* always, fileName, placeCount and phoneCount of a successful run.
C17_ResponseCarriesOutcome ==
    (webpc = "responded" /\ cmdCtx # "none")
    => /\ {"success", "message"} \subseteq DOMAIN written
       /\ written.success = response.Success
       /\ written.message = response.Message
       /\ response.Success =>
            /\ {"fileName", "placeCount", "phoneCount"} \subseteq DOMAIN written
            /\ written.fileName = response.FileName
            /\ written.placeCount = response.PlaceCount
            /\ written.phoneCount = response.PhoneCount

\* ------------------------------------------------------------ formatPhone
\* C19: formatPhone is idempotent: formatting the result of formatPhone
\* again returns it unchanged.
C19_FormatPhoneIdempotent ==
    fmtpc = "reformatted" => reformatted = formatted

\* C19 witness: formatPhone changed its argument and the second call kept
\* the result.
C19_Witness ==
    /\ fmtpc = "reformatted"
    /\ formatted # text
    /\ reformatted = formatted

\* The decimal digits, and the characters the claim allows between them.
IsDigits(s) ==
    \A k \in DOMAIN s : s[k] \in {"0", "1", "2", "3", "4", "5", "6", "7", "8", "9"}

\* text without the interspersed characters.
Bare == SelectSeq(text, LAMBDA ch : ch \notin {" ", "\t", "\n", "\f", "\r", "-", "(", ")"})

\* "d1d2d3 d4d5d6 d7d8d9d10".
Grouped334(d) ==
    <<d[1], d[2], d[3], " ", d[4], d[5], d[6], " ", d[7], d[8], d[9], d[10]>>

C21_OtherInputsUnchanged ==
    (/\ fmtpc \in {"formatted", "reformatted"}
     /\ ~(Len(Bare) = 10 /\ IsDigits(Bare))
     /\ ~(/\ Len(Bare) = 13
          /\ SubSeq(Bare, 1, 3) = <<"+", "5", "2">>
          /\ IsDigits(SubSeq(Bare, 4, 13))))
    => formatted = text

FirstMatch ==
    IF FindString(mexicanPhoneRegex, text) # << >>
      THEN FindString(mexicanPhoneRegex, text)
    ELSE IF FindString(tenDigitRegex, text) # << >>
      THEN FindString(tenDigitRegex, text)
    ELSE FindString(generalPhoneRegex, text)

\* C24: extractPhoneFromText returns the match of the first pattern, in
\* priority order, that matches the text, and "" when no pattern matches.
C24_FirstPatternMatchReturned ==
    fmtpc = "extracted" => extracted = FirstMatch

\* ------------------------------------------------------------ findPhoneNumber
\* What each of the four strategies yields on the page, in priority order.
Yields ==
    << ByDataItemId(page.buttons).phone,
       ByAriaLabel(page.labels).phone,
       ByClass(page.blocks).phone,
       ByAnyText(AllElements(page)).phone >>

\* C23: findPhoneNumber returns what the first strategy, in the order
\* identifier, label, class block, all text, that yields a phone yields;
\* it returns "" only when all four yield nothing.
C23_FirstStrategyWins ==
    fmtpc = "located" =>
        /\ found # << >> =>
             \E k \in 1..4 : /\ found = Yields[k]
                             /\ \A l \in 1..(k - 1) : Yields[l] = << >>
        /\ found = << >> => \A k \in 1..4 : Yields[k] = << >>

\* C29: a phone reported by ExtractPhoneFromGoogleMapsURL is formatPhone's
\* output, whichever strategy or pattern found it: formatting it again
\* changes nothing.
C29_ReportedPhoneIsFormatted ==
    (fmtpc = "located" /\ found # << >>) => formatPhone(found) = found

\* ------------------------------------------------------------ readCSV
\* The data rows of the file that have all 8 fields, in order.
WellFormed ==
    SelectSeq([k \in 1..(Len(csvFile) - 1) |->
                  [row |-> k, fields |-> csvFile[k + 1].fields,
                   Phone |-> csvFile[k + 1].Phone,
                   GoogleURL |-> csvFile[k + 1].GoogleURL]],
              LAMBDA r : r.fields >= 8)

\* C25: reading a file with a header and data rows never fails because a
\* row has fewer than 8 fields: such a row is skipped and every well-formed
\* row of the file is loaded, in order.
C25_MalformedRowSkipped ==
    (mainpc # "open" /\ Len(csvFile) >= 2)
    => /\ mainpc # "readError"
       /\ Len(places) = Len(WellFormed)
       /\ \A k \in 1..Len(WellFormed) :
            /\ k \in DOMAIN places
            /\ places[k].Name = WellFormed[k].row
            /\ places[k].Phone = WellFormed[k].Phone
            /\ places[k].GoogleURL = WellFormed[k].GoogleURL

\* ------------------------------------------------------------ records and the barrier
\* C26: a record changes only in the step of the job that holds the mutex,
\* which changes its own record, while processPlacesWithPhones has not
\* returned; two jobs are never inside the assignment together, and once
\* the save and the summary scan can start no job is at the assignment.
C26_WritesLockedAndBeforeBarrier ==
    /\ [](\A i, j \in Slots :
            /\ pc[i] = "write" => mu = i
            /\ (pc[i] = "write" /\ pc[j] = "write") => i = j)
    /\ [](mainpc \in {"returned", "saved", "saveError", "done"}
            => \A i \in Slots : pc[i] \notin {"lockWrite", "write"})
    /\ [][\A k \in 1..MaxJobPlaces :
            (/\ k \in DOMAIN updatedPlaces
             /\ k \in DOMAIN updatedPlaces'
             /\ updatedPlaces'[k] # updatedPlaces[k])
            => /\ mu \in Slots
               /\ pc[mu] = "write"
               /\ PlaceIndex(mu) = k
               /\ mainpc = "loop"]_vars

\* C26 witness: the results were saved after a job wrote its phone under the
\* mutex, and the mutex is free.
C26_Witness ==
    /\ mainpc = "saved"
    /\ mu = 0
    /\ \E k \in Jobs : Len(writes[k]) = 1 /\ updatedPlaces[k].ScrapedPhone # ""

\* ------------------------------------------------------------ pacing and slots
\* The workers between "semaphore <- struct{}{}" and the end of their work
\* on the place, the pacing delay excluded.
Working == { k \in Jobs : HoldsSlot(k) /\ pc[k] # "sleep" }

\* C27: a job in its 1 s pacing delay has released its slot: the tokens in
\* the semaphore are those of the workers still working, so a worker that
\* waits for capacity is not kept out by a sleeping one.
C27_SlotFreeDuringDelay ==
    (\E i \in Jobs : pc[i] = "sleep") => semaphore <= Cardinality(Working)

\* The workers of the eligible places (no original phone, a URL).
EligibleJobs ==
    { k \in Jobs : places[k].Phone = "" /\ places[k].GoogleURL # "" }

\* C28: only the worker of an eligible place takes a slot: every token in
\* the semaphore belongs to such a worker, and the worker of a skipped place
\* is never between acquiring and releasing a slot.
C28_SkippedPlaceTakesNoSlot ==
    /\ semaphore <= Cardinality({ k \in EligibleJobs : HoldsSlot(k) })
    /\ \A i \in Jobs \ EligibleJobs : ~HoldsSlot(i)

\* The stage pipeline.sh ran first, and whether the enrichment stage has run.
Collection == stages[1]

Enriched == \E i \in DOMAIN stages : stages[i].name = "phone_scraper"

\* C30: in pipeline.sh the enrichment stage starts only after the collection
\* stage has exited successfully and produced a CSV; when collection fails or
\* yields no CSV the enrichment stage never runs and the script exits with
\* failure; when collection yields a CSV of zero places the script exits with
\* success without running the enrichment stage.
C30_StagesInSequence ==
    /\ Enriched =>
           /\ Len(stages) = 2
           /\ Collection.name = "mapsscrap-1"
           /\ Collection.status = 0
           /\ Collection.csv # ""
    /\ (stages # << >> /\ (Collection.status # 0 \/ Collection.csv = "")) =>
           /\ ~Enriched
           /\ sh.pc = "exit" => sh.status # 0
    /\ (stages # << >> /\ Collection.status = 0 /\ Collection.csv # "" /\ Collection.lines = 0) =>
           /\ ~Enriched
           /\ sh.pc = "exit" => sh.status = 0

\* ------------------------------------------------------------ the two scrapers
\* C31: the enhanced scraper and phone_scraper.go implement the same
\* operation: on the same page findPhoneNumber of the one file returns what
\* findPhoneNumber of the other returned, and on the same text
\* extractPhoneFromText of the one returns what that of the other returned.
C31_SameResultInBothFiles ==
    /\ [][FindPhoneNumberOther => found' = found]_vars
    /\ [][ExtractPhoneFromTextOther => extracted' = extracted]_vars

\* ------------------------------------------------------------ slots
\* C32: the tokens in the semaphore are those of the workers between their
\* acquire and their release, never more than maxPhoneWorkers = 3 and none
\* once processPlacesWithPhones has returned; a token is added only by a
\* worker that acquires, and removed only by a worker that held one and
\* holds none afterwards; a worker that has released never holds a slot
\* again.
C32_SlotReleasedExactlyOnce ==
    /\ [](/\ semaphore \in 0..maxPhoneWorkers
          /\ semaphore = Cardinality({ i \in Slots : HoldsSlot(i) }))
    /\ [](Returned => semaphore = 0)
    /\ [][/\ semaphore' > semaphore =>
                \E i \in Slots : /\ pc[i] = "start"
                                  /\ HoldsSlot(i)'
                                  /\ semaphore' = semaphore + 1
          /\ semaphore' < semaphore =>
                \E i \in Slots : /\ HoldsSlot(i)
                                  /\ ~HoldsSlot(i)'
                                  /\ semaphore' = semaphore - 1
          /\ \A i \in Slots :
                pc[i] \in {"barLock", "barAdd", "wgDone", "done", "fatal"}
                    => ~HoldsSlot(i)']_vars

\* C32 witness: a batch of more places than slots has returned with an empty
\* semaphore after a skipped place, a phone, and a failure each took and
\* gave back a slot.
C32_Witness ==
    /\ Returned
    /\ semaphore = 0
    /\ N > maxPhoneWorkers
    /\ \E i \in Jobs : ~Eligible(i)
    /\ \E i \in Jobs : updatedPlaces[i].ScrapedPhone # ""
    /\ \E i \in Jobs : Eligible(i) /\ updatedPlaces[i].ScrapedPhone = ""

\* ------------------------------------------------------------ the lookup goroutine
\* C33: the page of a job is closed only after the lookup on it has
\* finished: while the lookup goroutine runs findPhoneNumber, the job is
\* still inside findPhoneWithTimeout, before the deferred page.Close().
C33_PageOpenDuringLookup ==
    \A i \in Slots : lookup[i] = "running" => pc[i] \in {"select", "parked"}

\* C36: the send of the lookup goroutine never blocks: while the goroutine
\* runs, its step to the end is possible whatever the caller does; and it
\* ends with exactly one value: in one of the two channels, handed to the
\* caller parked in the select, or dropped with the channels.
C36_LookupSendsOnceNeverBlocks ==
    /\ [](\A i \in Slots : (lookup[i] = "running" /\ ~crashed) => ENABLED LookupReturns(i))
    /\ [][\A i \in Slots :
            (lookup[i] = "running" /\ lookup'[i] # "running") =>
                \/ lookup'[i] \in {"sentPhone", "sentErr", "latePhone", "lateErr"}
                \/ lookup'[i] = "none" /\ pc[i] = "parked" /\ result'[i] \in {"phone", "empty"}
                \/ lookup'[i] = "none" /\ ~InExtract(i) /\ pc[i] # "sleep"]_vars

\* C36 witness: the caller returned on the timeout, and the goroutine has
\* ended with its value left in a channel that nobody reads.
C36_Witness ==
    \E i \in Jobs : /\ pc[i] = "sleep"
                     /\ result[i] = "timeout"
                     /\ lookup[i] \in {"sentPhone", "sentErr"}

\* ------------------------------------------------------------ the wait loop of executePipeline
\* C35: an executePipeline whose process was started returns: from the
\* select of its wait loop it reaches its return, and once the deadline has
\* ended the process it reaches it as well; it never returns while the
\* process is running; before its return there is no PipelineResponse and
\* after it the one it returned stays as it is.
C35_StartedRunReturnsOnce ==
    /\ (webpc = "select") ~> PipelineReturned
    /\ (cmd = "killed") ~> PipelineReturned
    /\ [](PipelineReturned => cmd # "running")
    /\ [](webpc \in {"select", "findLatestCSV", "countPlacesInCSV"} => response = NoResponse)
    /\ [][PipelineReturned => (PipelineReturned' /\ response' = response)]_vars

\* C35 witness: the process never ended by itself, the deadline killed it
\* and the caller of the 10-minute run got the timeout failure.
C35_Witness ==
    /\ webpc = "responded"
    /\ req.IncludePhone
    /\ cmd = "killed"
    /\ cmdCtx = "expired"
    /\ response = Failure(TimeoutMessage)

\* ------------------------------------------------------------ overlapping runs
\* C34: a run that returns a CSV file never returns one written by another
\* of the runs in progress with it: the file is its own, or one that was in
\* the directory before the runs started.
C34_NeverTheOtherRunsFile ==
    \A r \in DOMAIN runs :
        \A i \in DOMAIN runs[r].file : runs[r].file[i].run \in {0, r}

====
